---- MODULE Spec2Model ----
(***************************************************************************)
(* Notes-Calendar (chinaiclab/Notes-Calendar): a model of the plugin's     *)
(* calendar panel, folder statistics and file-explorer annotations.        *)
(*                                                                         *)
(* The repository holds the plugin source twice: src/main.ts and a second  *)
(* variant of the same file, src/unnamed/part_000.  Where the two agree    *)
(* one definition models both; where they differ the variable `variant`    *)
(* selects the code that runs.                                             *)
(***************************************************************************)
EXTENDS Integers, Sequences, FiniteSets, TLC

(***************************************************************************)
(* Bounds of the model.                                                    *)
(***************************************************************************)
\* ticks of the clock per calendar day (the host clock counts milliseconds)
TicksPerDay == 2
\* number of markdown notes in the vault of the calendar specifications
MaxNotes == 2
\* the cursor may be navigated this many years back from 2024
MaxYearSpan == 1
\* saveSettings / setViewState calls that may be in flight at once, per kind
MaxPending == 1
\* renders of the date-notes modal that may be running at once
MaxRenders == 2
\* setTimeout callbacks that may be pending at once, per kind
MaxTimers == 2
\* number of files and folders the vault of the explorer specifications may hold
MaxNodes == 3

(***************************************************************************)
(* The host's Date object.  A Date is a number of ticks since 1970-01-01   *)
(* local time; the accessors below compute the local calendar fields the   *)
(* way the ECMAScript Date does (MakeDay / MakeDate with overflow of the   *)
(* month into the year and of the day into the following months).          *)
(***************************************************************************)
IsLeap(y) == (y % 4 = 0 /\ y % 100 # 0) \/ y % 400 = 0

\* days from 1970-01-01 to y-01-01
DaysBeforeYear(y) ==
    365 * (y - 1970) + ((y - 1969) \div 4) - ((y - 1901) \div 100) + ((y - 1601) \div 400)

MonthLength(y, m) ==
    IF m = 1 THEN (IF IsLeap(y) THEN 29 ELSE 28)
    ELSE IF m \in {3, 5, 8, 10} THEN 30 ELSE 31

\* days from the first of January to the first of month m (0-based)
DaysBeforeMonth(y, m) ==
    <<0, 31, 59, 90, 120, 151, 181, 212, 243, 273, 304, 334>>[m + 1]
      + (IF m >= 2 /\ IsLeap(y) THEN 1 ELSE 0)

\* ECMAScript MakeDay: month and day may lie outside their range
MakeDay(y, m, d) ==
    LET yy == y + (m \div 12)
        mm == m % 12
    IN  DaysBeforeYear(yy) + DaysBeforeMonth(yy, mm) + (d - 1)

\* new Date(year, month, day) at local midnight, plus a time of day
MakeDate(y, m, d, tod) == MakeDay(y, m, d) * TicksPerDay + tod

DayOf(t) == t \div TicksPerDay

TimeOfDay(t) == t % TicksPerDay

\* ECMAScript YearFromTime, MonthFromTime, DateFromTime of day number n
YearFromDay(n) ==
    LET y == 1970 + (n \div 365)
    IN  IF DaysBeforeYear(y) > n THEN y - 1 ELSE y

MonthFromDay(n) ==
    LET y == YearFromDay(n)
    IN  CHOOSE m \in 0..11 :
           /\ DaysBeforeYear(y) + DaysBeforeMonth(y, m) <= n
           /\ n < DaysBeforeYear(y) + DaysBeforeMonth(y, m) + MonthLength(y, m)

DateFromDay(n) ==
    LET y == YearFromDay(n)
    IN  n - DaysBeforeYear(y) - DaysBeforeMonth(y, MonthFromDay(n)) + 1

\* the calendar fields of every day the model's dates can fall on
CalendarDays ==
    [n \in DaysBeforeYear(2024 - MaxYearSpan - 2)..DaysBeforeYear(2024 + MaxYearSpan + 3) |->
        [year |-> YearFromDay(n), month |-> MonthFromDay(n), date |-> DateFromDay(n)]]

getFullYear(t) == CalendarDays[DayOf(t)].year

getMonth(t) == CalendarDays[DayOf(t)].month

getDate(t) == CalendarDays[DayOf(t)].date

\* 1970-01-01 was a Thursday (4); 0 = Sunday
getDay(t) == (DayOf(t) + 4) % 7

\* Date.prototype.setMonth(m): same year, day of month and time, month m
setMonth(t, m) == MakeDate(getFullYear(t), m, getDate(t), TimeOfDay(t))

\* Date.prototype.setFullYear(y): same month, day of month and time, year y
setFullYear(t, y) == MakeDate(y, getMonth(t), getDate(t), TimeOfDay(t))

(***************************************************************************)
(* State.                                                                  *)
(***************************************************************************)
VARIABLES
    variant,        \* "main": src/main.ts runs; "part": src/unnamed/part_000 runs
    phase,          \* "init" before onload, "loaded" after it
    settings,       \* NotesDatesPlugin.settings
    saved,          \* the record persisted by saveData
    lastLanguage,   \* NotesDatesPlugin.lastLanguage (part_000 only)
    now,            \* the host clock (new Date())
    vault,          \* the host's files and folders, in host order
    names,          \* the vault-root file names that createNewNote produced, by path
    creating,       \* the file names of the vault.create calls not settled yet
    firstLine,      \* the first non-empty line of the note being previewed, trimmed
    preview,        \* the text of the timeline-note-preview element made from it
    localized,      \* the getLocalizedText call last made and the string it returned
    title,          \* the name a folder title of the file tree shows when it has no data-path
    faulty,         \* the paths for which the host's getAbstractFileByPath throws
    leaves,         \* number of workspace leaves of type CALENDAR_VIEW_TYPE
    currentDate,    \* CalendarView.currentDate, the cursor
    monthYearEl,    \* text of the month-year-display span
    calendarEl,     \* children of the calendar-grid container
    opening,        \* activateCalendarView calls awaiting setViewState
    jump,           \* position of the asynchronous jumpCalendarToFileDate
    modal,          \* the DateNotesModal on screen
    opened,         \* the file last handed to workspace openFile
    notice,         \* the Notice last shown
    labels,         \* file explorer: the spans the plugin added to each title node
    listeners,      \* file explorer: the listener mark and the click handlers of each title node
    pendingSaves,   \* saveSettings calls whose saveData has not resolved yet
    timers          \* pending setTimeout callbacks, by kind

pluginVars == <<variant, phase, settings, saved, lastLanguage>>

\* the note text the previews are made of
textVars == <<firstLine, preview, localized, title>>

hostVars == <<now, vault, names, creating, faulty, textVars>>

\* what the calendar view puts in front of the user besides its panel
uiVars == <<modal, opened, notice>>

calVars == <<leaves, opening, currentDate, monthYearEl, calendarEl, jump, uiVars>>

explorerVars == <<labels, listeners, pendingSaves, timers>>

vars == <<pluginVars, hostVars, calVars, explorerVars>>

Variants == {"main", "part"}

\* highlightDate === undefined
NoDate == -1

\* no DateNotesModal on screen
NoModal == [open |-> FALSE, notes |-> <<>>, timeline |-> <<>>, renders |-> <<>>, overlapped |-> FALSE]

\* no modal, no file opened and no Notice shown yet
NoUi ==
    /\ modal = NoModal
    /\ opened = 0
    /\ notice = "none"

\* getLocalizedText not called yet
NoCall == [key |-> "", language |-> "none", text |-> ""]

\* no note is being previewed, no text looked up
NoText ==
    /\ firstLine = <<>>
    /\ preview = <<>>
    /\ localized = NoCall
    /\ title = <<>>

\* no file of the vault carries a name made by createNewNote
NoNames == <<>>

\* modification times the notes of the model may carry
NoteTimes ==
    { MakeDate(2024, 2, 15, 0), MakeDate(2024, 2, 15, 1), MakeDate(2023, 2, 15, 0),
      MakeDate(2024, 1, 15, 0), MakeDate(2024, 0, 31, 1) }

DEFAULT_SETTINGS ==
    [ showCreationDate |-> TRUE,
      showModificationDate |-> TRUE,
      dateFormat |-> "YYYY-MM-DD",
      enableCalendarView |-> TRUE,
      calendarFirstDayOfWeek |-> 0,
      showFileCount |-> TRUE,
      calendarViewType |-> "year",
      sortOrder |-> "desc",
      showSubdirectoryStats |-> TRUE,
      language |-> "zh" ]

(***************************************************************************)
(* The vault.  An entry is a folder, a markdown note ("md") or another     *)
(* file ("other"); parent is the index of the folder holding it, 0 for the *)
(* vault root.  An entry's index stands for its path.                      *)
(***************************************************************************)
Entry(parent, kind, mtime) == [parent |-> parent, kind |-> kind, mtime |-> mtime]

Paths(c) == 1..Len(c.vault)

\* vault.getAbstractFileByPath
getAbstractFileByPath(c, path) == IF path \in Paths(c) THEN c.vault[path] ELSE [kind |-> "null"]

\* TFolder.children, in host order
RECURSIVE childrenFrom(_, _, _)
childrenFrom(c, folderPath, i) ==
    IF i > Len(c.vault) THEN <<>>
    ELSE (IF c.vault[i].parent = folderPath THEN <<i>> ELSE <<>>) \o childrenFrom(c, folderPath, i + 1)

children(c, folderPath) == childrenFrom(c, folderPath, 1)

\* vault.getMarkdownFiles
getMarkdownFiles(c) == SelectSeq([i \in Paths(c) |-> i], LAMBDA i : c.vault[i].kind = "md")

NoteIds(c) == {i \in Paths(c) : c.vault[i].kind = "md"}

\* file.stat.mtime of every entry
notes(c) == [i \in Paths(c) |-> c.vault[i].mtime]

(***************************************************************************)
(* Sequences.                                                              *)
(***************************************************************************)
RECURSIVE Concat(_)
Concat(ss) == IF ss = <<>> THEN <<>> ELSE Head(ss) \o Concat(Tail(ss))

\* the comparators of the sort calls: (a, b) => b.stat.mtime - a.stat.mtime for
\* "desc", (a, b) => a.stat.mtime - b.stat.mtime for "asc"; TRUE when a sorts
\* strictly before b
before(a, b, order, mtime) ==
    IF order = "desc" THEN mtime[a] > mtime[b] ELSE mtime[a] < mtime[b]

\* Array.prototype.sort is stable: elements that compare equal keep their order
RECURSIVE InsertSorted(_, _, _, _)
InsertSorted(x, s, order, mtime) ==
    IF s = <<>> THEN <<x>>
    ELSE IF before(x, Head(s), order, mtime) THEN <<x>> \o s
    ELSE <<Head(s)>> \o InsertSorted(x, Tail(s), order, mtime)

RECURSIVE sort(_, _, _)
sort(s, order, mtime) ==
    IF s = <<>> THEN <<>>
    ELSE InsertSorted(s[Len(s)], sort(SubSeq(s, 1, Len(s) - 1), order, mtime), order, mtime)

(***************************************************************************)
(* The calendar panel.  An element of the panel is a class name and the    *)
(* sequence of its items; an item carries its text (label), its CSS        *)
(* classes, the number it shows and the notes bound to its click handler.  *)
(***************************************************************************)
Item(label, classes, count, ns) ==
    [label |-> label, classes |-> classes, count |-> count, notes |-> ns]

Element(cls, items) == [cls |-> cls, items |-> items]

sameDay(a, b) ==
    /\ getFullYear(a) = getFullYear(b)
    /\ getMonth(a) = getMonth(b)
    /\ getDate(a) = getDate(b)

\* renderMonthView: the notes of one day of the displayed month
NotesByDateBuggy(c, year, month, day) ==
    SelectSeq(getMarkdownFiles(c),
              LAMBDA n : getMonth(notes(c)[n]) = month /\ getDate(notes(c)[n]) = day)

NotesByDateAnyMonth(c, year, month, day) ==
    SelectSeq(getMarkdownFiles(c),
              LAMBDA n : getFullYear(notes(c)[n]) = year /\ getDate(notes(c)[n]) = day)

notesByDate(c, year, month, day) ==
    SelectSeq(getMarkdownFiles(c),
              LAMBDA n : /\ getFullYear(notes(c)[n]) = year
                         /\ getMonth(notes(c)[n]) = month
                         /\ getDate(notes(c)[n]) = day)

FirstDayUnadjusted(c, year, month) == getDay(MakeDate(year, month, 1, 0))

\* renderMonthView: number of empty cells before day 1
firstDayOfMonth(c, year, month) ==
    LET wd == getDay(MakeDate(year, month, 1, 0))
    IN  IF c.settings.calendarFirstDayOfWeek = 1
        THEN (IF wd = 0 THEN 6 ELSE wd - 1)
        ELSE wd

daysInMonth(year, month) == getDate(MakeDate(year, month + 1, 0, 0))

weekdayHeaders(c) ==
    LET order == IF c.settings.calendarFirstDayOfWeek = 1
                 THEN <<1, 2, 3, 4, 5, 6, 0>>
                 ELSE <<0, 1, 2, 3, 4, 5, 6>>
    IN  [i \in 1..7 |-> Item(order[i], {"weekday-header"}, 0, <<>>)]

dayCell(c, year, month, day, highlightDate) ==
    LET cellDate == MakeDate(year, month, day, 0)
        today == MakeDate(getFullYear(c.now), getMonth(c.now), getDate(c.now), 0)
        dayNotes == notesByDate(c, year, month, day)
    IN  Item(day,
             {"calendar-day"}
               \cup (IF cellDate > today THEN {"future-date"} ELSE {})
               \cup (IF highlightDate # NoDate /\ sameDay(cellDate, highlightDate)
                     THEN {"highlighted-date"} ELSE {})
               \cup (IF Len(dayNotes) > 0 THEN {"has-notes"} ELSE {}),
             Len(dayNotes),
             dayNotes)

renderMonthView(c, date, highlightDate) ==
    LET year == getFullYear(date)
        month == getMonth(date)
        lead == firstDayOfMonth(c, year, month)
        n == daysInMonth(year, month)
    IN  [ monthYearEl |-> <<month, year>>,
          added |-> << Element("weekday-headers", weekdayHeaders(c)),
                       Element("calendar-days month-view",
                               [i \in 1..(lead + n) |->
                                   IF i <= lead
                                   THEN Item(0, {"calendar-day", "empty"}, 0, <<>>)
                                   ELSE dayCell(c, year, month, i - lead, highlightDate)]) >> ]

\* renderYearView: the notes of one month of the displayed year, sorted
NotesByMonthBuggy(c, year, month) ==
    sort(SelectSeq(getMarkdownFiles(c), LAMBDA n : getMonth(notes(c)[n]) = month),
         c.settings.sortOrder, notes(c))

notesByMonth(c, year, month) ==
    LET bucket == SelectSeq(getMarkdownFiles(c),
                            LAMBDA n : /\ getFullYear(notes(c)[n]) = year
                                       /\ getMonth(notes(c)[n]) = month)
    IN  sort(bucket, c.settings.sortOrder, notes(c))

monthChip(c, year, monthIndex, selectedMonth) ==
    LET monthNotes == notesByMonth(c, year, monthIndex)
    IN  Item(monthIndex,
             {"year-month-timeline-item"}
               \cup (IF monthIndex = selectedMonth THEN {"active"} ELSE {})
               \cup (IF Len(monthNotes) > 0 THEN {"has-notes"} ELSE {}),
             Len(monthNotes),
             <<>>)

timelineItem(c, n, highlightDate) ==
    Item(getDate(notes(c)[n]),
         {"timeline-item"}
           \cup (IF highlightDate # NoDate /\ sameDay(notes(c)[n], highlightDate)
                 THEN {"highlighted-note"} ELSE {}),
         0,
         <<n>>)

monthSection(c, year, monthIndex, highlightDate) ==
    LET monthNotes == notesByMonth(c, year, monthIndex)
    IN  <<Item(monthIndex, {"year-month-header"}, Len(monthNotes), <<>>)>>
          \o [i \in 1..Len(monthNotes) |-> timelineItem(c, monthNotes[i], highlightDate)]

renderYearView(c, date, highlightDate) ==
    LET year == getFullYear(date)
        sections == Concat([m \in 1..12 |-> monthSection(c, year, m - 1, highlightDate)])
        shown == {n \in NoteIds(c) : getFullYear(notes(c)[n]) = year}
    IN  [ monthYearEl |-> <<year>>,
          added |-> << Element("year-month-timeline",
                               [m \in 1..12 |-> monthChip(c, year, m - 1, getMonth(date))]),
                       Element("timeline",
                               IF shown = {}
                               THEN sections \o <<Item(year, {"no-notes-message"}, 0, <<>>)>>
                               ELSE sections) >> ]

EmptyNoClear(el) == el

\* calendarEl.empty()
empty(el) == <<>>

\* renderCalendar: the panel after the call, given the panel before it
renderCalendar(c, el, date, highlightDate) ==
    LET r == IF c.settings.calendarViewType = "month"
             THEN renderMonthView(c, date, highlightDate)
             ELSE renderYearView(c, date, highlightDate)
    IN  [ monthYearEl |-> r.monthYearEl,
          calendarEl |-> empty(el) \o r.added ]

(***************************************************************************)
(* Folder statistics.                                                      *)
(***************************************************************************)
ZeroStats == [totalFiles |-> 0, totalNotes |-> 0, subfolderStats |-> <<>>]

\* the forEach body of countFilesInFolder for a file child
countFile(c, stats, child) ==
    [stats EXCEPT !.totalFiles = @ + 1,
                  !.totalNotes = IF c.vault[child].kind = "md" THEN @ + 1 ELSE @]

\* the forEach body of countFilesInFolder for a subfolder child
CountSubfolderDropped(stats, child, subStats) ==
    [stats EXCEPT !.subfolderStats =
        Append(@, [path |-> child, files |-> subStats.totalFiles, notes |-> subStats.totalNotes])]

countSubfolder(stats, child, subStats) ==
    [stats EXCEPT !.totalFiles = @ + subStats.totalFiles,
                  !.totalNotes = @ + subStats.totalNotes,
                  !.subfolderStats =
                      Append(@, [path |-> child, files |-> subStats.totalFiles,
                                 notes |-> subStats.totalNotes])]

RECURSIVE countFilesInFolder(_, _), countChildren(_, _, _)
countChildren(c, cs, stats) ==
    IF cs = <<>> THEN stats
    ELSE LET child == Head(cs)
         IN  countChildren(c, Tail(cs),
                 IF c.vault[child].kind = "folder"
                 THEN countSubfolder(stats, child, countFilesInFolder(c, child))
                 ELSE countFile(c, stats, child))

\* path 0 is the vault root, a folder; a lookup that throws is caught and
\* answered with zeroes
countFilesInFolder(c, folderPath) ==
    IF folderPath \in c.faulty
    THEN ZeroStats
    ELSE IF folderPath # 0 /\ getAbstractFileByPath(c, folderPath).kind # "folder"
    THEN ZeroStats
    ELSE countChildren(c, children(c, folderPath), ZeroStats)

(***************************************************************************)
(* File explorer annotations.  labels[p] is the sequence of spans the      *)
(* plugin has appended to the title node of path p (p = 0: the root        *)
(* folder's title).                                                        *)
(***************************************************************************)
Span(cls, files, ns, fmt) == [cls |-> cls, files |-> files, notes |-> ns, fmt |-> fmt]

\* el.querySelector(cls) followed by remove(): the first match goes
RECURSIVE removeFirst(_, _)
removeFirst(spans, cls) ==
    IF spans = <<>> THEN <<>>
    ELSE IF Head(spans).cls = cls THEN Tail(spans)
    ELSE <<Head(spans)>> \o removeFirst(Tail(spans), cls)

hasSpan(spans, cls) == \E i \in 1..Len(spans) : spans[i].cls = cls

\* formatFileCountText: main.ts localizes, part_000 always writes English
formatFileCountText(totalFiles, totalNotes, language) ==
    Span("file-count", totalFiles, totalNotes,
         IF variant = "main" THEN language ELSE "en")

addDateDisplayToFileTitle(c, spans, file) ==
    LET cleared == removeFirst(spans, "date-display")
    IN  IF c.settings.showModificationDate \/ c.settings.showCreationDate
        THEN Append(cleared, Span("date-display", 0, 0,
                                  IF c.settings.showModificationDate THEN "mtime" ELSE "ctime"))
        ELSE cleared

AddCountNoRemove(c, spans, folderPath) ==
    LET stats == countFilesInFolder(c, folderPath)
    IN  IF stats.totalFiles > 0
        THEN Append(spans, formatFileCountText(stats.totalFiles, stats.totalNotes,
                                               c.settings.language))
        ELSE spans

AddCountAlways(c, spans, folderPath) ==
    LET stats == countFilesInFolder(c, folderPath)
    IN  Append(removeFirst(spans, "file-count"),
               formatFileCountText(stats.totalFiles, stats.totalNotes, c.settings.language))

addFileCountToFolder(c, spans, folderPath) ==
    LET cleared == removeFirst(spans, "file-count")
        stats == countFilesInFolder(c, folderPath)
    IN  IF stats.totalFiles > 0
        THEN Append(cleared, formatFileCountText(stats.totalFiles, stats.totalNotes,
                                                 c.settings.language))
        ELSE cleared

isFolder(c, p) == p = 0 \/ c.vault[p].kind = "folder"

\* the body of updateFileExplorerDates: every note title, then every folder title
refreshTitles(c, lab) ==
    [p \in DOMAIN lab |->
        IF isFolder(c, p)
        THEN (IF c.settings.showFileCount THEN addFileCountToFolder(c, lab[p], p) ELSE lab[p])
        ELSE IF c.vault[p].kind = "md" THEN addDateDisplayToFileTitle(c, lab[p], p)
        ELSE lab[p]]

\* updateFileExplorerDates: main.ts defers the body by a timeout, part_000 runs it
updateFileExplorerDates(c, ex) ==
    IF variant = "main"
    THEN [ex EXCEPT !.timers.refresh = @ + 1]
    ELSE [ex EXCEPT !.labels = refreshTitles(c, @)]

updateAllFilesDisplay(c, ex) == updateFileExplorerDates(c, ex)

\* the folder half of addFileClickListeners: folders without a count get one
addFileClickListeners(c, lab) ==
    [p \in DOMAIN lab |->
        IF isFolder(c, p) /\ c.settings.showFileCount /\ ~hasSpan(lab[p], "file-count")
        THEN addFileCountToFolder(c, lab[p], p)
        ELSE lab[p]]

\* a title node without the data-calendar-listener attribute and without handler
NoListener == [attr |-> FALSE, handlers |-> 0]

AddClickHandlersUnmarked(c, ls) ==
    [p \in DOMAIN ls |->
        IF p # 0 /\ c.vault[p].kind = "md"
        THEN [attr |-> TRUE, handlers |-> ls[p].handlers + 1]
        ELSE ls[p]]

\* the file half of addFileClickListeners: every title of a markdown file that
\* does not carry the attribute gets the attribute and a click handler
addClickHandlers(c, ls) ==
    [p \in DOMAIN ls |->
        IF p # 0 /\ c.vault[p].kind = "md" /\ ~ls[p].attr
        THEN [attr |-> TRUE, handlers |-> ls[p].handlers + 1]
        ELSE ls[p]]

\* what the plugin's code reads: its settings, the vault and the clock
this == [settings |-> settings, vault |-> vault, now |-> now, faulty |-> faulty]

(***************************************************************************)
(* Settings.                                                               *)
(***************************************************************************)
MergedDefaultsLast(data) == DEFAULT_SETTINGS

\* loadSettings: Object.assign({}, DEFAULT_SETTINGS, await this.loadData())
merged(data) ==
    [k \in DOMAIN DEFAULT_SETTINGS |-> IF k \in DOMAIN data THEN data[k] ELSE DEFAULT_SETTINGS[k]]

loadSettings ==
    /\ phase = "init"
    /\ settings' = merged(saved)
    /\ lastLanguage' = IF variant = "part" THEN settings'.language ELSE lastLanguage
    /\ phase' = "loading"
    /\ UNCHANGED <<variant, saved, hostVars, calVars, explorerVars>>

\* what follows `await this.saveData(this.settings)` in saveSettings, applied to
\* the explorer state ex = [labels, timers]; skip is skipFileDisplayUpdate
afterSaveData(ex, skip) ==
    IF variant = "main" THEN updateAllFilesDisplay(this, ex)
    ELSE IF ~skip /\ lastLanguage # settings.language THEN updateAllFilesDisplay(this, ex)
    ELSE ex

lastLanguageAfterSave == IF variant = "part" THEN settings.language ELSE lastLanguage

\* a timeout may be scheduled (the model keeps at most MaxTimers of a kind)
canSchedule(kind) == timers[kind] < MaxTimers

(***************************************************************************)
(* Plugin start.                                                           *)
(***************************************************************************)
onload ==
    /\ phase = "loading"
    /\ LET ex == updateAllFilesDisplay(this, [labels |-> labels, timers |-> timers])
       IN  /\ labels' = addFileClickListeners(this, ex.labels)
           /\ timers' = ex.timers
    /\ phase' = "loaded"
    /\ listeners' = addClickHandlers(this, listeners)
    /\ UNCHANGED <<variant, settings, saved, lastLanguage, hostVars, calVars, pendingSaves>>

(***************************************************************************)
(* Timers and continuations of the file-explorer synchronizer.             *)
(***************************************************************************)
\* the setTimeout callback of updateFileExplorerDates (main.ts)
RefreshTimer ==
    /\ phase \in {"loaded", "unloaded"}
    /\ timers.refresh > 0
    /\ labels' = refreshTitles(this, labels)
    /\ timers' = [timers EXCEPT !.refresh = @ - 1]
    /\ UNCHANGED listeners
    /\ UNCHANGED <<pluginVars, hostVars, calVars, pendingSaves>>

\* the setTimeout callback of the MutationObserver
ObserverTimer ==
    /\ phase \in {"loaded", "unloaded"}
    /\ timers.observer > 0
    /\ variant = "main" => canSchedule("refresh")
    /\ LET ex == updateFileExplorerDates(this, 
                    [labels |-> addFileClickListeners(this, labels),
                     timers |-> [timers EXCEPT !.observer = @ - 1]])
       IN  /\ labels' = ex.labels
           /\ timers' = ex.timers
    /\ listeners' = addClickHandlers(this, listeners)
    /\ UNCHANGED <<pluginVars, hostVars, calVars, pendingSaves>>

\* ensureLanguageConsistency (part_000): a count label in the other language
needsUpdate ==
    \E p \in DOMAIN labels : \E i \in 1..Len(labels[p]) :
        /\ labels[p][i].cls = "file-count"
        /\ labels[p][i].fmt # settings.language

\* the setInterval callback: addFileClickListeners every 2 s (main.ts),
\* ensureLanguageConsistency every 5 s (part_000)
Interval ==
    /\ phase \in {"loaded", "unloaded"}
    /\ labels' = IF variant = "main" THEN addFileClickListeners(this, labels)
                 ELSE IF needsUpdate THEN refreshTitles(this, labels)
                 ELSE labels
    /\ listeners' = IF variant = "main" THEN addClickHandlers(this, listeners) ELSE listeners
    /\ UNCHANGED <<pluginVars, hostVars, calVars, pendingSaves, timers>>

\* saveData of a saveSettings call nobody awaits, or whose awaiting handler
\* ends there, resolves
SaveDone ==
    /\ phase \in {"loaded", "unloaded"}
    /\ pendingSaves.plain > 0
    /\ variant = "main" => canSchedule("refresh")
    /\ LET ex == afterSaveData([labels |-> labels, timers |-> timers], FALSE)
       IN  /\ labels' = ex.labels
           /\ timers' = ex.timers
    /\ lastLanguage' = lastLanguageAfterSave
    /\ pendingSaves' = [pendingSaves EXCEPT !.plain = @ - 1]
    /\ UNCHANGED listeners
    /\ UNCHANGED <<variant, phase, settings, saved, hostVars, calVars>>

(***************************************************************************)
(* Host file events.  The handlers run with the vault already changed, so  *)
(* they are given the changed vault.                                       *)
(***************************************************************************)
FileKinds == {"md", "other"}

\* the explorer state after updateFileDisplay(file), from labels lab and timers tm
updateFileDisplay(c, lab, tm) == updateAllFilesDisplay(c, [labels |-> lab, timers |-> tm])

\* vault.on('create'): the host adds a file, renders its title node (which the
\* MutationObserver sees) and the plugin's handler runs
HostCreateFile ==
    /\ phase = "loaded"
    /\ Len(vault) < MaxNodes
    /\ canSchedule("observer")
    /\ variant = "main" => canSchedule("refresh")
    /\ \E parent \in {0} \cup {p \in Paths(this) : vault[p].kind = "folder"}, kind \in FileKinds :
          LET created == Append(vault, Entry(parent, kind, now))
              ex == updateFileDisplay([this EXCEPT !.vault = created],
                                      labels @@ (Len(vault) + 1 :> <<>>),
                                      [timers EXCEPT !.observer = @ + 1])
          IN  /\ vault' = created
              /\ labels' = ex.labels
              /\ timers' = ex.timers
    /\ listeners' = listeners @@ (Len(vault) + 1 :> NoListener)
    /\ UNCHANGED <<pluginVars, textVars, now, names, creating, faulty, calVars, pendingSaves>>

\* a created folder is no TFile: only the MutationObserver reacts
HostCreateFolder ==
    /\ phase = "loaded"
    /\ Len(vault) < MaxNodes
    /\ canSchedule("observer")
    /\ \E parent \in {0} \cup {p \in Paths(this) : vault[p].kind = "folder"} :
          vault' = Append(vault, Entry(parent, "folder", now))
    /\ labels' = labels @@ (Len(vault) + 1 :> <<>>)
    /\ timers' = [timers EXCEPT !.observer = @ + 1]
    /\ listeners' = listeners @@ (Len(vault) + 1 :> NoListener)
    /\ UNCHANGED <<pluginVars, textVars, now, names, creating, faulty, calVars, pendingSaves>>

\* the host's lookup of a path starts or stops throwing
HostFault ==
    /\ \E p \in {0} \cup Paths(this) :
          faulty' = IF p \in faulty THEN faulty \ {p} ELSE faulty \cup {p}
    /\ UNCHANGED <<pluginVars, textVars, now, vault, names, creating, calVars, explorerVars>>

\* vault.on('modify')
HostModify ==
    /\ phase = "loaded"
    /\ variant = "main" => canSchedule("refresh")
    /\ \E f \in Paths(this) :
          /\ vault[f].kind \in FileKinds
          /\ vault[f].mtime # now
          /\ LET modified == [vault EXCEPT ![f].mtime = now]
                 ex == updateFileDisplay([this EXCEPT !.vault = modified], labels, timers)
             IN  /\ vault' = modified
                 /\ labels' = ex.labels
                 /\ timers' = ex.timers
    /\ UNCHANGED listeners
    /\ UNCHANGED <<pluginVars, textVars, now, names, creating, faulty, calVars, pendingSaves>>

(***************************************************************************)
(* The settings tab.  Every control assigns its field and awaits           *)
(* saveSettings; saveData receives the settings as they are at the call.   *)
(***************************************************************************)
SaveSettingsCallDropped(kind) == UNCHANGED <<saved, pendingSaves>>

\* saveSettings up to its await
saveSettingsCall(kind) ==
    /\ pendingSaves[kind] < MaxPending
    /\ saved' = settings'
    /\ pendingSaves' = [pendingSaves EXCEPT ![kind] = @ + 1]

setToggle(key) ==
    /\ phase = "loaded"
    /\ settings' = [settings EXCEPT ![key] = ~@]
    /\ saveSettingsCall("plain")
    /\ UNCHANGED <<variant, phase, lastLanguage, hostVars, calVars, labels, listeners, timers>>

SetShowFileCount == setToggle("showFileCount")

SetShowModificationDate == setToggle("showModificationDate")

SetShowCreationDate == setToggle("showCreationDate")

SetLanguage ==
    /\ phase = "loaded"
    /\ settings' = [settings EXCEPT !.language = IF @ = "en" THEN "zh" ELSE "en"]
    /\ saveSettingsCall("lang")
    /\ UNCHANGED <<variant, phase, lastLanguage, hostVars, calVars, labels, listeners, timers>>

(***************************************************************************)
(* The calendar view.                                                      *)
(***************************************************************************)
\* the two parts of the panel a render writes
setPanel(r) ==
    /\ monthYearEl' = r.monthYearEl
    /\ calendarEl' = r.calendarEl

\* years the cursor of the model may reach
YearWindow == (2024 - MaxYearSpan)..2024

IdleJump == [pc |-> "idle", file |-> 0, date |-> NoDate]

\* CalendarView.onOpen, for the first leaf: the cursor is today, the panel is
\* rendered for it (the model follows the view of calendarLeaves[0] only)
onOpen ==
    IF leaves = 0
    THEN /\ currentDate' = now
         /\ setPanel(renderCalendar(this, <<>>, now, NoDate))
    ELSE UNCHANGED <<currentDate, monthYearEl, calendarEl>>

\* activateCalendarView from the command or the ribbon icon, up to its await:
\* an existing leaf is revealed, otherwise setViewState is started
activateCalendarView ==
    /\ phase = "loaded"
    /\ IF leaves > 0
       THEN UNCHANGED opening
       ELSE /\ opening < MaxPending
            /\ opening' = opening + 1
    /\ UNCHANGED <<pluginVars, hostVars, leaves, currentDate, monthYearEl, calendarEl,
                   jump, uiVars, explorerVars>>

\* setViewState resolves: the leaf exists and its view has been opened
ViewStateSet ==
    /\ opening > 0
    /\ opening' = opening - 1
    /\ leaves' = leaves + 1
    /\ onOpen
    /\ UNCHANGED <<pluginVars, hostVars, jump, uiVars, explorerVars>>

\* navigateCalendar: the new cursor
navigated(date, direction) ==
    IF settings.calendarViewType = "month"
    THEN setMonth(date, getMonth(date) + direction)
    ELSE setFullYear(date, getFullYear(date) + direction)

navigateCalendar(direction) ==
    /\ phase = "loaded"
    /\ leaves > 0
    /\ LET d == navigated(currentDate, direction)
       IN  /\ getFullYear(d) \in YearWindow
           /\ currentDate' = d
           /\ setPanel(renderCalendar(this, calendarEl, d, NoDate))
    /\ UNCHANGED <<pluginVars, hostVars, leaves, opening, jump, uiVars, explorerVars>>

PrevClick == navigateCalendar(-1)

NextClick == navigateCalendar(1)

\* viewSwitcherBtn.onclick
ViewSwitcherClick ==
    /\ phase = "loaded"
    /\ leaves > 0
    /\ LET newSettings == [settings EXCEPT
                              !.calendarViewType = IF @ = "year" THEN "month" ELSE "year"]
       IN  /\ settings' = newSettings
           /\ saveSettingsCall("plain")
           /\ setPanel(renderCalendar([this EXCEPT !.settings = newSettings],
                                      calendarEl, currentDate, NoDate))
    /\ UNCHANGED <<variant, phase, lastLanguage, hostVars, leaves, opening, currentDate,
                   jump, uiVars, labels, listeners, timers>>

\* sortBtn.onclick of the calendar controls
SortClick ==
    /\ phase = "loaded"
    /\ leaves > 0
    /\ LET newSettings == [settings EXCEPT !.sortOrder = IF @ = "desc" THEN "asc" ELSE "desc"]
       IN  /\ settings' = newSettings
           /\ saveSettingsCall("plain")
           /\ setPanel(renderCalendar([this EXCEPT !.settings = newSettings],
                                      calendarEl, currentDate, NoDate))
    /\ UNCHANGED <<variant, phase, lastLanguage, hostVars, leaves, opening, currentDate,
                   jump, uiVars, labels, listeners, timers>>

\* the timeline entries the panel shows
shownNotes ==
    {n \in NoteIds(this) : \E e \in 1..Len(calendarEl) : \E i \in 1..Len(calendarEl[e].items) :
        /\ calendarEl[e].cls = "timeline"
        /\ calendarEl[e].items[i].notes = <<n>>}

\* noteContent.onclick of a year-view timeline entry.  main.ts always switches
\* to month view on the first of the note's month; part_000 does so only when
\* the view type setting is month, and otherwise opens the note.
NoteClick ==
    /\ phase = "loaded"
    /\ leaves > 0
    /\ \E n \in shownNotes :
          IF variant = "part" /\ settings.calendarViewType = "year"
          THEN /\ opened' = n
               /\ UNCHANGED <<settings, saved, pendingSaves, monthYearEl, calendarEl, notice>>
          ELSE LET newSettings == [settings EXCEPT !.calendarViewType = "month"]
                   noteDate == notes(this)[n]
                   targetDate == MakeDate(getFullYear(noteDate), getMonth(noteDate), 1, 0)
               IN  /\ settings' = newSettings
                   /\ saveSettingsCall("plain")
                   /\ setPanel(renderCalendar([this EXCEPT !.settings = newSettings],
                                              calendarEl, targetDate, targetDate))
                   /\ notice' = IF variant = "main" THEN "jumpedToMonthView" ELSE notice
                   /\ UNCHANGED opened
    /\ UNCHANGED <<variant, phase, lastLanguage, hostVars, leaves, opening, currentDate,
                   jump, modal, labels, listeners, timers>>

(***************************************************************************)
(* The notes-for-day modal (DateNotesModal), opened from a day cell.       *)
(***************************************************************************)
\* the day cells of the panel that carry a click handler, with its notes
clickableDays ==
    UNION {{calendarEl[e].items[i].notes :
               i \in {j \in 1..Len(calendarEl[e].items) : calendarEl[e].items[j].notes # <<>>}} :
           e \in {k \in 1..Len(calendarEl) : calendarEl[k].cls = "calendar-days month-view"}}

\* DateNotesModal.renderTimeline: this.notes sorted in place by the sort order
renderTimeline(c, ns) == sort(ns, c.settings.sortOrder, notes(c))

DetachNone(renders) == renders

\* timelineContainer.empty(): the timeline elements of the renders still
\* running leave the document; what those renders append is not shown
detach(renders) == [i \in DOMAIN renders |-> [renders[i] EXCEPT !.attached = FALSE]]

\* renderTimeline up to its first await: the container is emptied, this.notes
\* is sorted, a new timeline element is attached and the entry of the first
\* note is appended to it; the loop then waits for that note's content.
\* next is the position of the loop in this.notes; overlapped records that a
\* render began while another one was waiting
startRender(c, m) ==
    LET sorted == renderTimeline(c, m.notes)
    IN  [ open |-> TRUE,
          notes |-> sorted,
          timeline |-> IF sorted = <<>> THEN <<>> ELSE <<sorted[1]>>,
          renders |-> detach(m.renders)
                        \o (IF sorted = <<>> THEN <<>> ELSE <<[attached |-> TRUE, next |-> 2]>>),
          overlapped |-> m.overlapped \/ m.renders # <<>> ]

\* dayEl.onclick: showNotesForDate opens the modal on the notes of the cell
DayClick ==
    /\ phase = "loaded"
    /\ leaves > 0
    /\ ~modal.open
    /\ \E dayNotes \in clickableDays :
          modal' = startRender(this, [NoModal EXCEPT !.notes = dayNotes])
    /\ UNCHANGED <<pluginVars, hostVars, leaves, opening, currentDate, monthYearEl,
                   calendarEl, jump, opened, notice, explorerVars>>

\* sortBtn.onclick of the modal
ModalSortClick ==
    /\ phase = "loaded"
    /\ modal.open
    /\ Len(modal.renders) < MaxRenders
    /\ LET newSettings == [settings EXCEPT !.sortOrder = IF @ = "desc" THEN "asc" ELSE "desc"]
       IN  /\ settings' = newSettings
           /\ saveSettingsCall("plain")
           /\ modal' = startRender([this EXCEPT !.settings = newSettings], modal)
    /\ UNCHANGED <<variant, phase, lastLanguage, hostVars, leaves, opening, currentDate,
                   monthYearEl, calendarEl, jump, opened, notice, labels, listeners, timers>>

\* the content read a render waits for resolves: the loop of that render goes
\* on with the note at its position in this.notes as the array is now, appends
\* its entry to the render's own timeline element and waits again, or ends
ModalReadDone ==
    /\ \E i \in DOMAIN modal.renders :
          LET r == modal.renders[i]
              others == [k \in 1..(Len(modal.renders) - 1) |->
                            modal.renders[IF k < i THEN k ELSE k + 1]]
          IN  IF r.next > Len(modal.notes)
              THEN modal' = [modal EXCEPT !.renders = others]
              ELSE modal' = [modal EXCEPT
                                !.renders[i].next = @ + 1,
                                !.timeline = IF r.attached
                                             THEN Append(@, modal.notes[r.next]) ELSE @]
    /\ UNCHANGED <<pluginVars, hostVars, leaves, opening, currentDate, monthYearEl,
                   calendarEl, jump, opened, notice, explorerVars>>

\* noteContent.onclick of a modal entry: the note is opened, the modal closed
ModalNoteClick ==
    /\ modal.open
    /\ \E i \in 1..Len(modal.notes) : opened' = modal.notes[i]
    /\ modal' = NoModal
    /\ UNCHANGED <<pluginVars, hostVars, leaves, opening, currentDate, monthYearEl,
                   calendarEl, jump, notice, explorerVars>>

(***************************************************************************)
(* Jump navigation: jumpCalendarToFileDate, an async function with two     *)
(* awaits (activateCalendarView and saveSettings).  Other handlers run     *)
(* while it waits.                                                         *)
(***************************************************************************)
\* jumpCalendarToFileDate between its two awaits: the view type is forced to
\* month and saveSettings is called
forceMonthAndSave(file) ==
    /\ settings' = [settings EXCEPT !.calendarViewType = "month"]
    /\ saved' = settings'
    /\ jump' = [pc |-> "saving", file |-> file, date |-> notes(this)[file]]

\* the click handler addFileClickListeners puts on a note's title.  In part_000
\* the handler jumps only when the view type setting is not year.
FileClick ==
    /\ phase = "loaded"
    /\ jump.pc = "idle"
    /\ variant = "part" => settings.calendarViewType # "year"
    /\ \E file \in NoteIds(this) :
          IF leaves > 0
          THEN forceMonthAndSave(file)
          ELSE /\ jump' = [pc |-> "opening", file |-> file, date |-> NoDate]
               /\ UNCHANGED <<settings, saved>>
    /\ UNCHANGED <<variant, phase, lastLanguage, hostVars, leaves, opening, currentDate,
                   monthYearEl, calendarEl, uiVars, explorerVars>>

\* the jump's activateCalendarView resolves: its leaf exists and is open
JumpOpened ==
    /\ jump.pc = "opening"
    /\ leaves' = leaves + 1
    /\ onOpen
    /\ forceMonthAndSave(jump.file)
    /\ UNCHANGED <<variant, phase, lastLanguage, hostVars, opening, uiVars, explorerVars>>

\* (calendarView as any).currentDate = new Date(modDate)
setCursor(date) == currentDate' = date

\* the jump's saveSettings resolves: the cursor is set, the panel is rendered
\* with the date highlighted; part_000 then refreshes the explorer
JumpFinish ==
    /\ jump.pc = "saving"
    /\ variant = "main" => canSchedule("refresh")
    /\ lastLanguage' = lastLanguageAfterSave
    /\ setCursor(jump.date)
    /\ setPanel(renderCalendar(this, calendarEl, jump.date, jump.date))
    /\ LET ex == afterSaveData([labels |-> labels, timers |-> timers], variant = "part")
       IN  /\ labels' = IF variant = "part" THEN refreshTitles(this, ex.labels) ELSE ex.labels
           /\ timers' = ex.timers
    /\ jump' = IdleJump
    /\ notice' = IF variant = "main" THEN "jumped" ELSE notice
    /\ UNCHANGED listeners
    /\ UNCHANGED <<variant, phase, settings, saved, hostVars, leaves, opening, modal, opened,
                   pendingSaves>>

\* the language control's handler after its awaited saveSettings: the calendar
\* is rendered again and updateAllFilesDisplay is called
LangSaveDone ==
    /\ phase = "loaded"
    /\ pendingSaves.lang > 0
    /\ variant = "main" => timers.refresh + 2 <= MaxTimers
    /\ lastLanguage' = lastLanguageAfterSave
    /\ IF leaves > 0
       THEN setPanel(renderCalendar(this, calendarEl, currentDate, NoDate))
       ELSE UNCHANGED <<monthYearEl, calendarEl>>
    /\ LET ex == updateAllFilesDisplay(this, 
                    afterSaveData([labels |-> labels, timers |-> timers], FALSE))
       IN  /\ labels' = ex.labels
           /\ timers' = ex.timers
    /\ pendingSaves' = [pendingSaves EXCEPT !.lang = @ - 1]
    /\ UNCHANGED listeners
    /\ UNCHANGED <<variant, phase, settings, saved, hostVars, leaves, opening, currentDate,
                   jump, uiVars>>

(***************************************************************************)
(* Specifications.                                                         *)
(***************************************************************************)
NoTimers == [refresh |-> 0, observer |-> 0]

NoSaves == [plain |-> 0, lang |-> 0]

NoLabels == [p \in 0..Len(vault) |-> <<>>]

NoListeners == [p \in 0..Len(vault) |-> NoListener]

\* a vault of MaxNotes notes in the root folder
FlatVaults(times) ==
    {v \in [1..MaxNotes -> [parent : {0}, kind : {"md"}, mtime : times]] : TRUE}

CalendarClosed ==
    /\ leaves = 0
    /\ opening = 0
    /\ currentDate = NoDate
    /\ monthYearEl = <<>>
    /\ calendarEl = <<>>
    /\ jump = IdleJump
    /\ NoUi

\* one calendar leaf is open and shows today, as onOpen leaves it
CalendarOpen ==
    /\ leaves = 1
    /\ opening = 0
    /\ currentDate = now
    /\ monthYearEl = renderCalendar(this, <<>>, now, NoDate).monthYearEl
    /\ calendarEl = renderCalendar(this, <<>>, now, NoDate).calendarEl
    /\ jump = IdleJump
    /\ NoUi

\* the calendar panel in use: the plugin is loaded with default settings, the
\* explorer is annotated, the calendar is closed or open
InitCalendar ==
    /\ variant \in Variants
    /\ phase = "loaded"
    /\ settings = DEFAULT_SETTINGS
    /\ saved = settings
    /\ lastLanguage = settings.language
    /\ now = MakeDate(2024, 0, 31, 0)
    /\ vault = <<Entry(0, "md", MakeDate(2024, 0, 31, 0)),
                 Entry(0, "md", MakeDate(2023, 2, 31, 0))>>
    /\ names = NoNames
    /\ creating = <<>>
    /\ NoText
    /\ faulty = {}
    /\ CalendarClosed \/ CalendarOpen
    /\ labels = refreshTitles(this, NoLabels)
    /\ listeners = addClickHandlers(this, NoListeners)
    /\ pendingSaves = NoSaves
    /\ timers = NoTimers

NextCalendar ==
    \/ PrevClick
    \/ NextClick
    \/ ViewSwitcherClick
    \/ NoteClick
    \/ FileClick
    \/ JumpOpened
    \/ JumpFinish
    \/ SaveDone
    \/ RefreshTimer

SpecCalendar == InitCalendar /\ [][NextCalendar]_vars

\* the items of the element of class cls of panel content el
itemsIn(el, cls) ==
    Concat([e \in 1..Len(el) |-> IF el[e].cls = cls THEN el[e].items ELSE <<>>])

itemsOf(cls) == itemsIn(calendarEl, cls)

marked(items, class) == {i \in 1..Len(items) : class \in items[i].classes}

\* the calendar with the file explorer's notes as the only way to a highlight:
\* what the program does on its own (pending saves, timeouts, the steps of a
\* jump) happens eventually, what the user does may or may not happen
NextJump ==
    \/ PrevClick
    \/ NextClick
    \/ ViewSwitcherClick
    \/ FileClick
    \/ JumpOpened
    \/ JumpFinish
    \/ SaveDone
    \/ RefreshTimer

FairSpecJump ==
    /\ InitCalendar
    /\ [][NextJump]_vars
    /\ WF_vars(JumpOpened)
    /\ WF_vars(JumpFinish)
    /\ WF_vars(SaveDone)
    /\ WF_vars(RefreshTimer)

\* the period a cursor lies in: its month in month view, its year in year view
periodOf(date, viewType) ==
    IF viewType = "month" THEN 12 * getFullYear(date) + getMonth(date) ELSE getFullYear(date)

\* C4: a click on the previous or next control moves the cursor by exactly one
\* period of the current view, whatever the cursor's day of the month
C4_NavigateOnePeriod ==
    [][\A direction \in {-1, 1} :
          navigateCalendar(direction) =>
              periodOf(currentDate', settings.calendarViewType)
                 = periodOf(currentDate, settings.calendarViewType) + direction]_vars

\* the panel shows a highlighted day or a highlighted timeline entry
Highlighted ==
    \E e \in 1..Len(calendarEl) : \E i \in 1..Len(calendarEl[e].items) :
        calendarEl[e].items[i].classes \cap {"highlighted-date", "highlighted-note"} # {}

\* header and content el of the panel show the month of date, with the cell of
\* its day highlighted
monthShownWith(header, el, date) ==
    /\ header = <<getMonth(date), getFullYear(date)>>
    /\ \E i \in marked(itemsIn(el, "calendar-days month-view"), "highlighted-date") :
          itemsIn(el, "calendar-days month-view")[i].label = getDate(date)

\* C5: when a jump completes the view type is month, the cursor is the file's
\* modification time and the panel shows that month with the day highlighted
C5_JumpCompletes ==
    [][JumpFinish =>
          /\ settings'.calendarViewType = "month"
          /\ currentDate' = vault[jump.file].mtime
          /\ monthShownWith(monthYearEl', calendarEl', vault[jump.file].mtime)]_vars

\* what the user does to the panel in FairSpecJump
UserAct == PrevClick \/ NextClick \/ ViewSwitcherClick \/ FileClick

\* C6: the highlight a jump puts on the panel does not stay: unless the user
\* keeps acting on the panel for ever, the panel is again and again without
\* highlight
C6_HighlightTransient == ([]<>(~Highlighted)) \/ ([]<><<UserAct>>_vars)

\* C15: a press of the view switcher changes the view type to the other one
\* and keeps the cursor, and a second press right after it brings back the
\* view type and the display that were there before the first
C15_ViewSwitchRoundTrip ==
    [][ViewSwitcherClick =>
          /\ currentDate' = currentDate
          /\ {settings.calendarViewType, settings'.calendarViewType} = {"month", "year"}
          /\ LET again == renderCalendar([this EXCEPT !.settings = settings],
                                         calendarEl', currentDate', NoDate)
             IN  /\ again.monthYearEl = monthYearEl
                 /\ again.calendarEl = calendarEl]_vars

\* C18: a click on a timeline entry of the year view opens the entry's note
\* and leaves the view type setting and the cursor as they were
C18_NoteClickOpensNote ==
    [][NoteClick =>
          /\ opened' \in shownNotes
          /\ settings'.calendarViewType = settings.calendarViewType
          /\ currentDate' = currentDate]_vars

(***************************************************************************)
(* The file explorer: the plugin starts on a small vault, the host adds    *)
(* and modifies files, the settings tab changes the display settings.      *)
(***************************************************************************)
\* the records data.json may hold when the plugin starts
SavedData == {<<>>, [showFileCount |-> FALSE]}

\* the vaults the plugin may start on: empty, or a folder holding an older note
StartVaults ==
    { <<>>,
      <<Entry(0, "folder", MakeDate(2024, 0, 31, 0)), Entry(1, "md", MakeDate(2024, 0, 31, 0))>> }

InitExplorer ==
    /\ variant \in Variants
    /\ phase = "init"
    /\ settings = DEFAULT_SETTINGS
    /\ saved \in SavedData
    /\ lastLanguage = DEFAULT_SETTINGS.language
    /\ now = MakeDate(2024, 2, 20, 0)
    /\ vault \in StartVaults
    /\ names = NoNames
    /\ creating = <<>>
    /\ NoText
    /\ faulty = {}
    /\ CalendarClosed
    /\ labels = NoLabels
    /\ listeners = NoListeners
    /\ pendingSaves = NoSaves
    /\ timers = NoTimers

NextExplorer ==
    \/ loadSettings
    \/ onload
    \/ RefreshTimer
    \/ ObserverTimer
    \/ Interval
    \/ SaveDone
    \/ LangSaveDone
    \/ HostCreateFile
    \/ HostCreateFolder
    \/ HostModify
    \/ SetShowFileCount
    \/ SetShowModificationDate
    \/ SetShowCreationDate
    \/ SetLanguage

SpecExplorer == InitExplorer /\ [][NextExplorer]_vars

Folders == {0} \cup {p \in Paths(this) : vault[p].kind = "folder"}

directFiles(folderPath) ==
    {q \in Paths(this) : vault[q].parent = folderPath /\ vault[q].kind # "folder"}

directNotes(folderPath) ==
    {q \in Paths(this) : vault[q].parent = folderPath /\ vault[q].kind = "md"}

subfolders(folderPath) ==
    {q \in Paths(this) : vault[q].parent = folderPath /\ vault[q].kind = "folder"}

RECURSIVE sumOver(_, _)
sumOver(S, field) ==
    IF S = {} THEN 0
    ELSE LET q == CHOOSE x \in S : TRUE
         IN  countFilesInFolder(this, q)[field] + sumOver(S \ {q}, field)

spansOf(p, cls) == {i \in 1..Len(labels[p]) : labels[p][i].cls = cls}

\* C3: for every folder, countFilesInFolder gives as totalFiles the number of
\* its direct files plus the totalFiles of its direct subfolders, and as
\* totalNotes the number of its direct markdown files plus the totalNotes of
\* its direct subfolders
C3_CountAdditive ==
    \A p \in Folders :
        LET stats == countFilesInFolder(this, p)
        IN  /\ stats.totalFiles
                 = Cardinality(directFiles(p)) + sumOver(subfolders(p), "totalFiles")
            /\ stats.totalNotes
                 = Cardinality(directNotes(p)) + sumOver(subfolders(p), "totalNotes")
            /\ Len(stats.subfolderStats) = Cardinality(subfolders(p))

\* the root holds a file that is no note next to a folder holding a note, and
\* the root's count label shows the two files and the one note
C3_Witness ==
    /\ \E q \in subfolders(0) : directNotes(q) # {}
    /\ directFiles(0) # {} /\ directNotes(0) = {}
    /\ \E i \in spansOf(0, "file-count") :
          /\ labels[0][i].files = countFilesInFolder(this, 0).totalFiles
          /\ labels[0][i].files = 2
          /\ labels[0][i].notes = 1

\* C9: however often the explorer is refreshed, a file's title carries at most
\* one date label and a folder's title at most one count label
C9_AtMostOneLabel ==
    \A p \in DOMAIN labels :
        /\ Cardinality(spansOf(p, "date-display")) <= 1
        /\ Cardinality(spansOf(p, "file-count")) <= 1

\* main.ts after the language was changed and every refresh has run: the
\* labels written before were replaced, each title carries exactly one
C9_Witness ==
    /\ variant = "main"
    /\ phase = "loaded"
    /\ timers = NoTimers /\ pendingSaves = NoSaves
    /\ settings.language = "en"
    /\ \E p \in Paths(this) :
          /\ vault[p].kind = "md"
          /\ Cardinality(spansOf(p, "date-display")) = 1
    /\ Cardinality(spansOf(0, "file-count")) = 1
    /\ \A i \in spansOf(0, "file-count") : labels[0][i].fmt = "en"

\* the labels the current settings and the current vault call for: a count
\* label on a folder iff showFileCount is on and the folder holds a file, a
\* date label on a note iff a date flag is on
LabelsMatchSettings ==
    /\ \A p \in Folders :
          spansOf(p, "file-count") # {}
             <=> (settings.showFileCount /\ countFilesInFolder(this, p).totalFiles > 0)
    /\ \A p \in NoteIds(this) :
          spansOf(p, "date-display") # {}
             <=> (settings.showModificationDate \/ settings.showCreationDate)

\* no explorer refresh is pending: no timeout, no save in flight
ExplorerQuiet ==
    /\ phase = "loaded"
    /\ timers = NoTimers
    /\ pendingSaves = NoSaves

\* C7: a refresh callback that fires after the settings changed works from the
\* settings current when it fires: once it has run, the explorer labels match
\* the current settings
C7_RefreshFromCurrentState == [][RefreshTimer => LabelsMatchSettings']_vars

\* C10: once every pending explorer refresh has completed, the labels are
\* those the current settings and the current vault call for
C10_LabelsDetermined == ExplorerQuiet => LabelsMatchSettings

\* no change of the language is waiting for its save: the language is the one
\* of the previous load or save
LanguageAsSaved ==
    /\ pendingSaves.lang = 0
    /\ variant = "part" => lastLanguage = settings.language

\* C11: a save refreshes the file explorer only when the language changed: a
\* save that resolves while the language is the one of the previous load or
\* save leaves the labels alone and schedules no refresh, and (part_000) a
\* save that finds another language refreshes the labels
C11_SaveRefreshesOnLanguageOnly ==
    [][SaveDone =>
          /\ saved = settings
          /\ LanguageAsSaved => (labels' = labels /\ timers' = timers)
          /\ (variant = "part" /\ lastLanguage # settings.language)
                => labels' = refreshTitles(this, labels)]_vars

(***************************************************************************)
(* The rendering functions over every small vault: the panel is open on    *)
(* today and is rendered again by the controls that keep the cursor.       *)
(***************************************************************************)
InitRender ==
    /\ variant \in Variants
    /\ phase = "loaded"
    /\ settings \in {[DEFAULT_SETTINGS EXCEPT !.calendarFirstDayOfWeek = d] : d \in {0, 1}}
    /\ saved = settings
    /\ lastLanguage = settings.language
    /\ now \in {MakeDate(2024, 2, 20, 0), MakeDate(2025, 2, 20, 0)}
    /\ vault \in FlatVaults(NoteTimes)
    /\ names = NoNames
    /\ creating = <<>>
    /\ NoText
    /\ faulty = {}
    /\ CalendarOpen
    /\ labels = refreshTitles(this, NoLabels)
    /\ listeners = addClickHandlers(this, NoListeners)
    /\ pendingSaves = NoSaves
    /\ timers = NoTimers

NextRender ==
    \/ ViewSwitcherClick
    \/ SortClick
    \/ SaveDone
    \/ RefreshTimer

SpecRender == InitRender /\ [][NextRender]_vars

monthViewShown == Len(monthYearEl) = 2

yearViewShown == Len(monthYearEl) = 1

\* the notes whose modification time lies in month m (0-based) of year y
notesIn(y, m) ==
    {n \in NoteIds(this) : getFullYear(vault[n].mtime) = y /\ getMonth(vault[n].mtime) = m}

\* C1: in month view the number of cells marked has-notes equals the number of
\* distinct days of the displayed year and month on which a note was modified,
\* and the marked cells are the cells of exactly those days
C1_MonthViewHasNotes ==
    monthViewShown =>
        LET cells == itemsOf("calendar-days month-view")
            days == {getDate(vault[n].mtime) : n \in notesIn(monthYearEl[2], monthYearEl[1])}
        IN  /\ Cardinality(marked(cells, "has-notes")) = Cardinality(days)
            /\ {cells[i].label : i \in marked(cells, "has-notes")} = days

\* March 2024 is displayed while the vault holds a note of March 2024 and a
\* note of the same month of another year
C1_Witness ==
    /\ monthViewShown
    /\ monthYearEl = <<2, 2024>>
    /\ notesIn(2024, 2) # {}
    /\ notesIn(2023, 2) # {}
    /\ Cardinality(marked(itemsOf("calendar-days month-view"), "has-notes")) = 1

\* C2: in year view the number of month chips marked has-notes equals the
\* number of distinct months of the displayed year with a note, and every
\* chip's count is the number of notes of that month of that year
C2_YearViewChips ==
    yearViewShown =>
        LET chips == itemsOf("year-month-timeline")
            year == monthYearEl[1]
        IN  /\ Len(chips) = 12
            /\ Cardinality(marked(chips, "has-notes"))
                 = Cardinality({m \in 0..11 : notesIn(year, m) # {}})
            /\ \A i \in 1..12 :
                  /\ chips[i].count = Cardinality(notesIn(year, i - 1))
                  /\ i \in marked(chips, "has-notes") <=> notesIn(year, i - 1) # {}

\* year 2024 is displayed, one month holds two notes, the same month of 2023
\* holds none of them
C2_Witness ==
    /\ yearViewShown
    /\ monthYearEl = <<2024>>
    /\ Cardinality(notesIn(2024, 2)) = 1
    /\ notesIn(2023, 2) # {}
    /\ itemsOf("year-month-timeline")[3].count = 1

\* C8: rendering the panel again with nothing changed in between gives the
\* panel a single render gives: the same content, one header row or chip row
\* and one body, no cell twice
C8_RenderIdempotent ==
    leaves > 0 =>
        \A highlightDate \in {NoDate, currentDate} :
            LET once == renderCalendar(this, calendarEl, currentDate, highlightDate)
                twice == renderCalendar(this, once.calendarEl, currentDate, highlightDate)
                fresh == renderCalendar(this, <<>>, currentDate, highlightDate)
            IN  /\ twice = once
                /\ once = fresh
                /\ Len(once.calendarEl) = 2

\* the sort control has rendered a panel that was already rendered
C8_Witness ==
    /\ leaves > 0
    /\ settings.sortOrder = "asc"
    /\ calendarEl # <<>>
    /\ calendarEl = renderCalendar(this, calendarEl, currentDate, NoDate).calendarEl
    /\ NoteIds(this) # {}

\* the notes modified on day d of month m (0-based) of year y
notesOn(y, m, d) == {n \in notesIn(y, m) : getDate(vault[n].mtime) = d}

\* C17: in month view the cell of day d shows a count and carries a click
\* handler iff a note was modified on day d of the displayed month and year;
\* the count is the number of those notes and the handler holds exactly them,
\* each once
C17_DayBadge ==
    monthViewShown =>
        LET cells == itemsOf("calendar-days month-view")
        IN  \A i \in 1..Len(cells) :
                "empty" \notin cells[i].classes =>
                    LET onDay == notesOn(monthYearEl[2], monthYearEl[1], cells[i].label)
                        held == cells[i].notes
                    IN  /\ cells[i].count > 0 <=> onDay # {}
                        /\ held # <<>> <=> onDay # {}
                        /\ cells[i].count = Cardinality(onDay)
                        /\ {held[j] : j \in 1..Len(held)} = onDay
                        /\ Len(held) = Cardinality(onDay)

\* March 2024 is displayed, one note is of 15 March 2024 and the other of
\* 15 February 2024: the cell of day 15 shows 1
C17_Witness ==
    /\ monthYearEl = <<2, 2024>>
    /\ {vault[n].mtime : n \in NoteIds(this)} = {MakeDate(2024, 2, 15, 0), MakeDate(2024, 1, 15, 0)}
    /\ \E i \in 1..Len(itemsOf("calendar-days month-view")) :
          /\ itemsOf("calendar-days month-view")[i].label = 15
          /\ itemsOf("calendar-days month-view")[i].count = 1

(***************************************************************************)
(* The settings record in use: the calendar is open on a small vault, the  *)
(* settings pane, the calendar controls, the modal, the timeline entries   *)
(* and the file tree change settings, and the saves they start complete.   *)
(***************************************************************************)
InitSettings ==
    /\ variant \in Variants
    /\ phase = "loaded"
    /\ settings = DEFAULT_SETTINGS
    /\ saved \in SavedData
    /\ lastLanguage = settings.language
    /\ now = MakeDate(2024, 2, 20, 0)
    /\ vault = <<Entry(0, "md", MakeDate(2024, 2, 15, 0))>>
    /\ names = NoNames
    /\ creating = <<>>
    /\ NoText
    /\ faulty = {}
    /\ CalendarOpen
    /\ labels = refreshTitles(this, NoLabels)
    /\ listeners = addClickHandlers(this, NoListeners)
    /\ pendingSaves = NoSaves
    /\ timers = NoTimers

NextSettings ==
    \/ SetShowFileCount
    \/ SetLanguage
    \/ LangSaveDone
    \/ ViewSwitcherClick
    \/ SortClick
    \/ DayClick
    \/ ModalSortClick
    \/ NoteClick
    \/ FileClick
    \/ JumpFinish
    \/ SaveDone
    \/ RefreshTimer

SpecSettings == InitSettings /\ [][NextSettings]_vars

\* a handler that changed the settings and a save that has completed since:
\* the persisted record is the changed one
C12_Witness ==
    /\ settings # DEFAULT_SETTINGS
    /\ pendingSaves = NoSaves
    /\ jump.pc = "idle"
    /\ saved = settings

\* C12: every handler that changes a field of the settings hands the changed
\* record to saveData in the same step and leaves a save in flight, and no
\* other step changes the persisted record; so with every save completed the
\* persisted record is the in-memory one
C12_MutationsArePersisted ==
    [][phase = "loaded" =>
          /\ settings' # settings =>
                /\ saved' = settings'
                /\ pendingSaves' # pendingSaves \/ jump'.pc = "saving"
          /\ saved' # saved => saved' = settings']_vars

Reverse(s) == [i \in 1..Len(s) |-> s[Len(s) + 1 - i]]

\* C14: for every month of the displayed year the notes listed under
\* ascending order are the notes listed under descending order, reversed
C14_SortReversal ==
    \A m \in 0..11 :
        notesByMonth([this EXCEPT !.settings.sortOrder = "asc"], getFullYear(currentDate), m)
          = Reverse(notesByMonth([this EXCEPT !.settings.sortOrder = "desc"],
                                 getFullYear(currentDate), m))

(***************************************************************************)
(* Plugin start over the records data.json may hold: every choice, for     *)
(* five of the keys, of a missing key, the default value or another value. *)
(***************************************************************************)
PersistedKeys ==
    {"showFileCount", "calendarFirstDayOfWeek", "calendarViewType", "sortOrder", "language"}

\* a value of each key other than its default
OtherValue ==
    [ showFileCount |-> FALSE,
      calendarFirstDayOfWeek |-> 1,
      calendarViewType |-> "month",
      sortOrder |-> "asc",
      language |-> "en" ]

PersistedRecords ==
    {[k \in K |-> IF k \in D THEN DEFAULT_SETTINGS[k] ELSE OtherValue[k]] :
        K \in SUBSET PersistedKeys, D \in SUBSET PersistedKeys}

InitLoad ==
    /\ variant \in Variants
    /\ phase = "init"
    /\ settings = DEFAULT_SETTINGS
    /\ saved \in PersistedRecords
    /\ lastLanguage = DEFAULT_SETTINGS.language
    /\ now = MakeDate(2024, 2, 20, 0)
    /\ vault = <<Entry(0, "folder", MakeDate(2024, 0, 31, 0)), Entry(1, "md", MakeDate(2024, 0, 31, 0))>>
    /\ names = NoNames
    /\ creating = <<>>
    /\ NoText
    /\ faulty = {}
    /\ CalendarClosed
    /\ labels = NoLabels
    /\ listeners = NoListeners
    /\ pendingSaves = NoSaves
    /\ timers = NoTimers

NextLoad ==
    \/ loadSettings
    \/ onload
    \/ RefreshTimer

SpecLoad == InitLoad /\ [][NextLoad]_vars

\* the defaults as documented
DocumentedDefaults ==
    [ showCreationDate |-> TRUE,
      showModificationDate |-> TRUE,
      enableCalendarView |-> TRUE,
      calendarFirstDayOfWeek |-> 0,
      showFileCount |-> TRUE,
      calendarViewType |-> "year",
      sortOrder |-> "desc",
      showSubdirectoryStats |-> TRUE,
      language |-> "zh" ]

\* C13: after loadSettings every key holds the persisted value if the
\* persisted record has the key and the documented default otherwise
C13_LoadMergesOverDefaults ==
    phase = "loading" =>
        \A k \in DOMAIN DocumentedDefaults :
            settings[k] = IF k \in DOMAIN saved THEN saved[k] ELSE DocumentedDefaults[k]

\* loaded from a record that holds some keys with other values and lacks others
C13_Witness ==
    /\ phase = "loading"
    /\ DOMAIN saved = {"language", "sortOrder"}
    /\ settings.language = "en"
    /\ settings.sortOrder = "asc"
    /\ settings.calendarViewType = "year"

(***************************************************************************)
(* The month grid over every month of two years and both first days of    *)
(* the week.                                                               *)
(***************************************************************************)
InitLayout ==
    /\ variant \in Variants
    /\ phase = "loaded"
    /\ settings \in {[DEFAULT_SETTINGS EXCEPT !.calendarFirstDayOfWeek = d] : d \in {0, 1}}
    /\ saved = settings
    /\ lastLanguage = settings.language
    /\ now \in {MakeDate(y, m, 15, 0) : y \in (2024 - MaxYearSpan)..2024, m \in 0..11}
    /\ vault = <<Entry(0, "md", MakeDate(2024, 2, 15, 0)), Entry(0, "md", MakeDate(2024, 2, 1, 1))>>
    /\ names = NoNames
    /\ creating = <<>>
    /\ NoText
    /\ faulty = {}
    /\ CalendarOpen
    /\ labels = refreshTitles(this, NoLabels)
    /\ listeners = addClickHandlers(this, NoListeners)
    /\ pendingSaves = NoSaves
    /\ timers = NoTimers

SpecLayout == InitLayout /\ [][NextRender]_vars

\* C16: in month view the number of empty cells before day 1 is the weekday
\* of the 1st minus the first day of the week, modulo 7, and every day cell
\* stands in the column whose header names the weekday of that day
C16_MonthLayout ==
    monthViewShown =>
        LET cells == itemsOf("calendar-days month-view")
            headers == itemsOf("weekday-headers")
            year == monthYearEl[2]
            month == monthYearEl[1]
            lead == Cardinality(marked(cells, "empty"))
        IN  /\ lead = (getDay(MakeDate(year, month, 1, 0)) - settings.calendarFirstDayOfWeek) % 7
            /\ marked(cells, "empty") = 1..lead
            /\ Len(headers) = 7
            /\ \A i \in (lead + 1)..Len(cells) :
                  headers[((i - 1) % 7) + 1].label = getDay(MakeDate(year, month, cells[i].label, 0))

\* September 2024, whose 1st is a Sunday, with Monday as first day of the
\* week: six empty cells
C16_Witness ==
    /\ monthViewShown
    /\ monthYearEl = <<8, 2024>>
    /\ settings.calendarFirstDayOfWeek = 1
    /\ Cardinality(marked(itemsOf("calendar-days month-view"), "empty")) = 6

(***************************************************************************)
(* Folder counts against a failing host: the explorer shows a small tree,  *)
(* lookups of some paths throw, the labels are refreshed.                  *)
(***************************************************************************)
\* a folder holding a note and a subfolder with another file, and a note in the root
FolderTree ==
    << Entry(0, "folder", MakeDate(2024, 0, 31, 0)),
       Entry(1, "md", MakeDate(2024, 0, 31, 0)),
       Entry(1, "folder", MakeDate(2024, 0, 31, 0)),
       Entry(3, "other", MakeDate(2024, 0, 31, 0)),
       Entry(0, "md", MakeDate(2024, 0, 31, 1)) >>

InitFolders ==
    /\ variant \in Variants
    /\ phase = "loaded"
    /\ settings = DEFAULT_SETTINGS
    /\ saved = settings
    /\ lastLanguage = settings.language
    /\ now = MakeDate(2024, 2, 20, 0)
    /\ vault = FolderTree
    /\ names = NoNames
    /\ creating = <<>>
    /\ NoText
    /\ faulty = {}
    /\ CalendarClosed
    /\ labels = refreshTitles(this, NoLabels)
    /\ listeners = addClickHandlers(this, NoListeners)
    /\ pendingSaves = NoSaves
    /\ timers = NoTimers

NextFolders ==
    \/ HostFault
    \/ HostModify
    \/ RefreshTimer
    \/ Interval

SpecFolders == InitFolders /\ [][NextFolders]_vars

\* the spans on the title node of path p, none for a path without a node
spansAt(p) == IF p \in DOMAIN labels THEN labels[p] ELSE <<>>

\* C19: for a path that resolves to nothing or to a file, or whose lookup
\* throws, countFilesInFolder answers zero files, zero notes and no subfolder
\* statistics, and addFileCountToFolder leaves the node without a count label
C19_CountFailsSoft ==
    \A p \in 0..(Len(vault) + 1) :
        (p \in faulty \/ p \notin Folders) =>
            /\ countFilesInFolder(this, p) = ZeroStats
            /\ ~hasSpan(addFileCountToFolder(this, spansAt(p), p), "file-count")

\* the lookup of a folder that holds files throws while the folder carries a
\* count label from an earlier refresh
C19_Witness ==
    /\ 1 \in faulty
    /\ hasSpan(labels[1], "file-count")
    /\ countFilesInFolder([this EXCEPT !.faulty = {}], 1).totalFiles > 0
    /\ countFilesInFolder(this, 1) = ZeroStats


(***************************************************************************)
(* New notes.  The new-note button calls createNewNote, which formats the  *)
(* local time of the click into a file name and awaits vault.create; the   *)
(* host settles the call later, and the handler goes on to open the file   *)
(* or to report the failure.  A tick of the clock is the clock's           *)
(* resolution: the seconds of a tick are those of its start.               *)
(***************************************************************************)
\* vault.create calls that may be unsettled at once
MaxCreating == 2
\* the clock may advance this many ticks in the new-note specification
MaxTicks == 3

SecondsOfDay(t) == TimeOfDay(t) * (86400 \div TicksPerDay)

getHours(t) == SecondsOfDay(t) \div 3600

getMinutes(t) == (SecondsOfDay(t) \div 60) % 60

getSeconds(t) == SecondsOfDay(t) % 60

Digits == <<"0", "1", "2", "3", "4", "5", "6", "7", "8", "9">>

\* String(n) of a non-negative integer, as its characters
RECURSIVE String(_)
String(n) == IF n < 10 THEN <<Digits[n + 1]>> ELSE String(n \div 10) \o <<Digits[(n % 10) + 1]>>

PadStartNone(s) == s

\* s.padStart(2, '0')
padStart2(s) == IF Len(s) >= 2 THEN s ELSE <<"0">> \o s

\* `${year}-${month}-${day}-${hour}${minute}${second}.md`
fileName(t) ==
    String(getFullYear(t)) \o <<"-">> \o padStart2(String(getMonth(t) + 1)) \o <<"-">>
      \o padStart2(String(getDate(t))) \o <<"-">>
      \o padStart2(String(getHours(t))) \o padStart2(String(getMinutes(t)))
      \o padStart2(String(getSeconds(t))) \o <<".", "m", "d">>

\* the vault root holds a file of that name
exists(name) == \E p \in DOMAIN names : names[p].name = name /\ vault[p].parent = 0

\* the host clock advances
Tick ==
    /\ now < MakeDate(2024, 11, 31, 0) + MaxTicks
    /\ now' = now + 1
    /\ UNCHANGED <<pluginVars, textVars, vault, names, creating, faulty, calVars, explorerVars>>

\* newNoteBtn.onclick: createNewNote up to its await of vault.create
createNewNote ==
    /\ phase = "loaded"
    /\ leaves > 0
    /\ Len(creating) < MaxCreating
    /\ creating' = Append(creating, fileName(now))
    /\ UNCHANGED <<pluginVars, textVars, now, vault, names, faulty, calVars, explorerVars>>

\* vault.create settles.  It rejects when the name is taken or the host fails for
\* another reason, and the catch block shows the failure Notice; otherwise the
\* host adds the empty file to the root, the 'create' handler and the
\* MutationObserver run, and the handler opens the file and shows its Notice
createSettled ==
    /\ creating # <<>>
    /\ creating' = Tail(creating)
    /\ LET name == Head(creating)
           newFile == Len(vault) + 1
       IN  \/ /\ exists(name)
              /\ notice' = "createNoteFailed: File already exists."
              /\ UNCHANGED <<vault, names, opened, explorerVars>>
           \/ /\ ~exists(name)
              /\ notice' = "createNoteFailed: host error"
              /\ UNCHANGED <<vault, names, opened, explorerVars>>
           \/ /\ ~exists(name)
              /\ Len(vault) < MaxNodes
              /\ canSchedule("observer")
              /\ variant = "main" => canSchedule("refresh")
              /\ LET created == Append(vault, Entry(0, "md", now))
                     ex == updateFileDisplay([this EXCEPT !.vault = created],
                                             labels @@ (newFile :> <<>>),
                                             [timers EXCEPT !.observer = @ + 1])
                 IN  /\ vault' = created
                     /\ labels' = ex.labels
                     /\ timers' = ex.timers
              /\ listeners' = listeners @@ (newFile :> NoListener)
              /\ names' = names @@ (newFile :> [name |-> name, data |-> <<>>])
              /\ opened' = newFile
              /\ notice' = "newNoteCreated"
              /\ UNCHANGED pendingSaves
    /\ UNCHANGED <<pluginVars, textVars, now, faulty, leaves, opening, currentDate, monthYearEl,
                   calendarEl, jump, modal>>

\* the calendar is open on the last day of 2024 over a vault of one note
InitNewNote ==
    /\ variant \in Variants
    /\ phase = "loaded"
    /\ settings = DEFAULT_SETTINGS
    /\ saved = settings
    /\ lastLanguage = settings.language
    /\ now = MakeDate(2024, 11, 31, 0)
    /\ vault = <<Entry(0, "md", MakeDate(2024, 2, 15, 0))>>
    /\ names = NoNames
    /\ creating = <<>>
    /\ NoText
    /\ faulty = {}
    /\ CalendarOpen
    /\ labels = refreshTitles(this, NoLabels)
    /\ listeners = addClickHandlers(this, NoListeners)
    /\ pendingSaves = NoSaves
    /\ timers = NoTimers

NextNewNote ==
    \/ Tick
    \/ createNewNote
    \/ createSettled
    \/ ObserverTimer
    \/ RefreshTimer

SpecNewNote == InitNewNote /\ [][NextNewNote]_vars

\* the number a sequence of digit characters writes
RECURSIVE Num(_)
Num(s) ==
    IF s = <<>> THEN 0
    ELSE 10 * Num(SubSeq(s, 1, Len(s) - 1))
           + (CHOOSE d \in 0..9 : Digits[d + 1] = s[Len(s)])

\* name reads YYYY-MM-DD-HHmmss.md and its fields are the local time t
isTimestampName(name, t) ==
    /\ Len(name) = 20
    /\ name[5] = "-" /\ name[8] = "-" /\ name[11] = "-"
    /\ SubSeq(name, 18, 20) = <<".", "m", "d">>
    /\ \A i \in (1..17) \ {5, 8, 11} : \E d \in 1..10 : Digits[d] = name[i]
    /\ Num(SubSeq(name, 1, 4)) = getFullYear(t)
    /\ Num(SubSeq(name, 6, 7)) = getMonth(t) + 1
    /\ Num(SubSeq(name, 9, 10)) = getDate(t)
    /\ Num(SubSeq(name, 12, 13)) * 3600 + Num(SubSeq(name, 14, 15)) * 60
         + Num(SubSeq(name, 16, 17)) = SecondsOfDay(t)

FailureNotices == {"createNoteFailed: File already exists.", "createNoteFailed: host error"}

\* C20: a new-note request asks the host for the file YYYY-MM-DD-HHmmss.md of
\* the local time of the request; when the host creates it, the file is an
\* empty note in the vault root under that name and it is opened; when the
\* creation fails, as it always does while a root file of that name exists,
\* a failure notice is shown, no file is opened, the vault and the existing
\* file stay as they are, and every request is settled by its handler
C20_NewNoteNamingAndFailure ==
    /\ [](creating # <<>> => ENABLED createSettled)
    /\ [][/\ Len(creating') > Len(creating) =>
               isTimestampName(creating'[Len(creating')], now)
          /\ Len(creating') < Len(creating) =>
               LET name == Head(creating)
                   failed == /\ notice' \in FailureNotices
                             /\ opened' = opened
                             /\ vault' = vault
                             /\ names' = names
                   created == /\ vault' = Append(vault, Entry(0, "md", now))
                              /\ names' = names @@ (Len(vault') :> [name |-> name, data |-> <<>>])
                              /\ opened' = Len(vault')
                              /\ notice' = "newNoteCreated"
               IN  /\ failed \/ created
                   /\ exists(name) => failed]_vars

\* a second note was requested within the tick of the first: the first request
\* made and opened the file, the second ended in the failure notice
C20_Witness ==
    /\ notice = "createNoteFailed: File already exists."
    /\ creating = <<>>
    /\ opened \in DOMAIN names
    /\ names[opened].name = fileName(now)
    /\ Len(vault) = 2


(***************************************************************************)
(* Note previews.  addFirstLineToTimeline and addFirstLineToModal strip    *)
(* the markdown of the first non-empty line with a chain of                *)
(* String.replace calls and keep the first 100 characters.  A line is the  *)
(* sequence of its characters.                                             *)
(***************************************************************************)
\* longest first line the preview specification draws
MaxLine == 4

\* s reads d at position i
startsWith(s, d, i) == i + Len(d) - 1 <= Len(s) /\ SubSeq(s, i, i + Len(d) - 1) = d

\* the positions at or after i where s reads d
occurrences(s, d, i) == {j \in i..Len(s) : startsWith(s, d, j)}

Min(S) == CHOOSE x \in S : \A y \in S : x <= y

\* .replace(/^#+\s*/, ''): the leading run of # and the white space after it
RECURSIVE dropWhile(_, _)
dropWhile(s, chars) ==
    IF s # <<>> /\ Head(s) \in chars THEN dropWhile(Tail(s), chars) ELSE s

removeHeaders(s) ==
    IF s # <<>> /\ Head(s) = "#" THEN dropWhile(dropWhile(s, {"#"}), {" "}) ELSE s

\* .replace(/d(.*?)d/g, '$1') for a delimiter d: from left to right, each
\* delimiter that has a later one behind it goes away together with the
\* nearest such, the text between them stays
RECURSIVE removePairsFrom(_, _, _)
removePairsFrom(s, d, i) ==
    IF i > Len(s) THEN <<>>
    ELSE IF startsWith(s, d, i) /\ occurrences(s, d, i + Len(d)) # {}
         THEN LET j == Min(occurrences(s, d, i + Len(d)))
              IN  SubSeq(s, i + Len(d), j - 1) \o removePairsFrom(s, d, j + Len(d))
         ELSE <<s[i]>> \o removePairsFrom(s, d, i + 1)

\* the end of a link /\[([^\]]+)\]\([^)]+\)/ that starts at i, 0 if none does:
\* "[", one or more characters up to the next "]", "(" right behind it, one
\* or more characters up to the next ")"
linkAt(s, i) ==
    IF s[i] # "[" \/ occurrences(s, <<"]">>, i + 1) = {} THEN [end |-> 0, text |-> <<>>]
    ELSE LET k == Min(occurrences(s, <<"]">>, i + 1))
         IN  IF k = i + 1 \/ ~startsWith(s, <<"(">>, k + 1)
                  \/ occurrences(s, <<")">>, k + 2) = {}
             THEN [end |-> 0, text |-> <<>>]
             ELSE LET m == Min(occurrences(s, <<")">>, k + 2))
                  IN  IF m = k + 2 THEN [end |-> 0, text |-> <<>>]
                      ELSE [end |-> m, text |-> SubSeq(s, i + 1, k - 1)]

\* .replace(/\[([^\]]+)\]\([^)]+\)/g, '$1')
RECURSIVE removeLinksFrom(_, _)
removeLinksFrom(s, i) ==
    IF i > Len(s) THEN <<>>
    ELSE IF linkAt(s, i).end # 0
         THEN linkAt(s, i).text \o removeLinksFrom(s, linkAt(s, i).end + 1)
         ELSE <<s[i]>> \o removeLinksFrom(s, i + 1)

\* .slice(0, 100)
slice(s, a, b) == SubSeq(s, a + 1, IF b < Len(s) THEN b ELSE Len(s))

\* the character ` of inline code
Backtick == "backtick"

\* the chain of replacements applied to the trimmed first line
stripMarkdown(s) ==
    LET headers == removeHeaders(s)
        bold == removePairsFrom(headers, <<"*", "*">>, 1)
        italic == removePairsFrom(bold, <<"*">>, 1)
        code == removePairsFrom(italic, <<Backtick>>, 1)
        links == removeLinksFrom(code, 1)
    IN  slice(links, 0, 100)

\* the characters of the lines of the preview specification
Chars == {"#", " ", "*", Backtick, "[", "]", "(", ")", "a"}

\* lines[0].trim() of a non-empty line: no white space at either end
Lines ==
    {s \in UNION {[1..n -> Chars] : n \in 1..MaxLine} : s[1] # " " /\ s[Len(s)] # " "}

\* addFirstLineToTimeline, addFirstLineToModal after the content read: the
\* preview element is made when the stripped line is not empty
addFirstLine ==
    /\ firstLine # <<>>
    /\ preview' = stripMarkdown(firstLine)
    /\ UNCHANGED <<pluginVars, now, vault, names, creating, faulty, firstLine, localized, title,
                   calVars, explorerVars>>

\* the host reads a note for its preview
InitPreview ==
    /\ variant \in Variants
    /\ phase = "loaded"
    /\ settings = DEFAULT_SETTINGS
    /\ saved = settings
    /\ lastLanguage = settings.language
    /\ now = MakeDate(2024, 2, 20, 0)
    /\ vault = <<Entry(0, "md", MakeDate(2024, 2, 15, 0))>>
    /\ names = NoNames
    /\ creating = <<>>
    /\ faulty = {}
    /\ firstLine \in Lines
    /\ preview = <<>>
    /\ localized = NoCall
    /\ title = <<>>
    /\ CalendarOpen
    /\ labels = refreshTitles(this, NoLabels)
    /\ listeners = addClickHandlers(this, NoListeners)
    /\ pendingSaves = NoSaves
    /\ timers = NoTimers

NextPreview == addFirstLine

SpecPreview == InitPreview /\ [][NextPreview]_vars

\* C21: stripping the markdown of a first line a second time changes nothing:
\* the preview made of a line is its own stripped form
C21_StripIdempotent == stripMarkdown(preview) = preview


(***************************************************************************)
(* Localization.  The strings of the table are written with their ASCII    *)
(* characters as they are and every other character as its code point.     *)
(***************************************************************************)
\* the entries of texts that main.ts and part_000 share
textsShared ==
    [ january |-> [en |-> "January", zh |-> "U+4E00U+6708"],
      february |-> [en |-> "February", zh |-> "U+4E8CU+6708"],
      march |-> [en |-> "March", zh |-> "U+4E09U+6708"],
      april |-> [en |-> "April", zh |-> "U+56DBU+6708"],
      may |-> [en |-> "May", zh |-> "U+4E94U+6708"],
      june |-> [en |-> "June", zh |-> "U+516DU+6708"],
      july |-> [en |-> "July", zh |-> "U+4E03U+6708"],
      august |-> [en |-> "August", zh |-> "U+516BU+6708"],
      september |-> [en |-> "September", zh |-> "U+4E5DU+6708"],
      october |-> [en |-> "October", zh |-> "U+5341U+6708"],
      november |-> [en |-> "November", zh |-> "U+5341U+4E00U+6708"],
      december |-> [en |-> "December", zh |-> "U+5341U+4E8CU+6708"],
      files |-> [en |-> "files", zh |-> "U+6587U+4EF6"],
      notes |-> [en |-> "notes", zh |-> "U+7B14U+8BB0"],
      filesAndNotes |-> [en |-> "files, notes", zh |-> "U+6587U+4EF6U+FF0CU+7B14U+8BB0"],
      totalFiles |-> [en |-> "Total", zh |-> "U+603BU+8BA1"],
      filesTotal |-> [en |-> "files", zh |-> "U+4E2AU+6587U+4EF6"],
      notesTotal |-> [en |-> "notes", zh |-> "U+4E2AU+7B14U+8BB0"],
      includingSubdirectories |-> [en |-> "including subdirectories", zh |-> "U+FF08U+5305U+542BU+5B50U+76EEU+5F55U+FF09"],
      notesCalendar |-> [en |-> "Notes Calendar", zh |-> "U+7B14U+8BB0U+65E5U+5386"],
      yearView |-> [en |-> "Year View", zh |-> "U+5E74U+89C6U+56FE"],
      monthView |-> [en |-> "Month View", zh |-> "U+6708U+89C6U+56FE"],
      locatedToFile |-> [en |-> "Located to file", zh |-> "U+5DF2U+5B9AU+4F4DU+5230U+6587U+4EF6"],
      jumpedToMonthView |-> [en |-> "Jumped to", zh |-> "U+5DF2U+8DF3U+8F6CU+5230"],
      monthViewAbbr |-> [en |-> "month view", zh |-> "U+6708U+89C6U+56FE"],
      switchView |-> [en |-> "Switch view", zh |-> "U+5207U+6362U+89C6U+56FE"],
      currentView |-> [en |-> "Current", zh |-> "U+5F53U+524D"],
      switchViewTooltip |-> [en |-> "Click to switch view (Current: {current})", zh |-> "U+70B9U+51FBU+5207U+6362U+89C6U+56FE (U+5F53U+524D: {current})"] ]

\* the weekday and icon entries of main.ts
textsMain ==
    [ sunday |-> [en |-> "Sun", zh |-> "U+65E5"],
      monday |-> [en |-> "Mon", zh |-> "U+4E00"],
      tuesday |-> [en |-> "Tue", zh |-> "U+4E8C"],
      wednesday |-> [en |-> "Wed", zh |-> "U+4E09"],
      thursday |-> [en |-> "Thu", zh |-> "U+56DB"],
      friday |-> [en |-> "Fri", zh |-> "U+4E94"],
      saturday |-> [en |-> "Sat", zh |-> "U+516D"],
      yearToMonth |-> [en |-> "U+1F4C5", zh |-> "U+1F4C5"],
      monthToYear |-> [en |-> "U+1F4C6", zh |-> "U+1F4C6"] ]

\* the weekday and icon entries of part_000 and the entries only it has
textsPart ==
    [ sunday |-> [en |-> "Sun", zh |-> "U+5468U+65E5"],
      monday |-> [en |-> "Mon", zh |-> "U+5468U+4E00"],
      tuesday |-> [en |-> "Tue", zh |-> "U+5468U+4E8C"],
      wednesday |-> [en |-> "Wed", zh |-> "U+5468U+4E09"],
      thursday |-> [en |-> "Thu", zh |-> "U+5468U+56DB"],
      friday |-> [en |-> "Fri", zh |-> "U+5468U+4E94"],
      saturday |-> [en |-> "Sat", zh |-> "U+5468U+516D"],
      yearToMonth |-> [en |-> "U+229E", zh |-> "U+229E"],
      monthToYear |-> [en |-> "U+229F", zh |-> "U+229F"],
      newNote |-> [en |-> "New Note", zh |-> "U+65B0U+5EFAU+7B14U+8BB0"],
      newNoteTooltip |-> [en |-> "Create new note with current timestamp", zh |-> "U+4F7FU+7528U+5F53U+524DU+65E5U+671FU+65F6U+95F4U+521BU+5EFAU+65B0U+7B14U+8BB0"],
      timeDesc |-> [en |-> "Time Desc", zh |-> "U+65F6U+95F4U+964DU+5E8F"],
      timeAsc |-> [en |-> "Time Asc", zh |-> "U+65F6U+95F4U+5347U+5E8F"],
      timeDescTooltip |-> [en |-> "Time Desc (Newest first)", zh |-> "U+65F6U+95F4U+964DU+5E8F (U+6700U+65B0U+5728U+524D)"],
      timeAscTooltip |-> [en |-> "Time Asc (Oldest first)", zh |-> "U+65F6U+95F4U+5347U+5E8F (U+6700U+65E7U+5728U+524D)"],
      newNoteCreated |-> [en |-> "New note created:", zh |-> "U+65B0U+5EFAU+7B14U+8BB0:"],
      createNoteFailed |-> [en |-> "Failed to create note:", zh |-> "U+521BU+5EFAU+7B14U+8BB0U+5931U+8D25:"],
      noNotesThisWeek |-> [en |-> "No notes modified this week", zh |-> "U+6CA1U+6709U+7B14U+8BB0U+5728U+672CU+5468U+4FEEU+6539"],
      yearNoNotes |-> [en |-> "No notes in", zh |-> "U+6CA1U+6709U+7B14U+8BB0U+5728"] ]

\* const texts of the running variant
texts == textsShared @@ (IF variant = "main" THEN textsMain ELSE textsPart)

\* properties every object literal inherits from Object.prototype: texts[key]
\* finds a value for them, and that value has no property en or zh
ObjectPrototype == {"constructor", "toString", "valueOf", "hasOwnProperty", "__proto__"}

Languages == {"en", "zh"}

\* texts[key]?.[language]: the string, or nothing (undefined)
entryOf(key, language) == IF key \in DOMAIN texts THEN <<texts[key][language]>> ELSE <<>>

GetLocalizedTextNoFallback(key, language) ==
    IF entryOf(key, language) # <<>> THEN entryOf(key, language)[1] ELSE ""

\* return texts[key]?.[language] || key: undefined and '' are falsy
getLocalizedText(key, language) ==
    IF entryOf(key, language) # <<>> /\ entryOf(key, language)[1] # ""
    THEN entryOf(key, language)[1] ELSE key

\* the keys the lookups of the model ask for: those of either table, inherited
\* property names, the empty key and a key of no table
Keys ==
    DOMAIN textsShared \cup DOMAIN textsMain \cup DOMAIN textsPart \cup ObjectPrototype
      \cup {"", "noSuchKey"}

\* some code asks for a text
lookupText ==
    /\ \E key \in Keys, language \in Languages :
          localized' = [key |-> key, language |-> language,
                        text |-> getLocalizedText(key, language)]
    /\ UNCHANGED <<pluginVars, now, vault, names, creating, faulty, firstLine, preview, title,
                   calVars, explorerVars>>

InitLookup ==
    /\ variant \in Variants
    /\ phase = "loaded"
    /\ settings = DEFAULT_SETTINGS
    /\ saved = settings
    /\ lastLanguage = settings.language
    /\ now = MakeDate(2024, 2, 20, 0)
    /\ vault = <<Entry(0, "md", MakeDate(2024, 2, 15, 0))>>
    /\ names = NoNames
    /\ creating = <<>>
    /\ faulty = {}
    /\ NoText
    /\ CalendarOpen
    /\ labels = refreshTitles(this, NoLabels)
    /\ listeners = addClickHandlers(this, NoListeners)
    /\ pendingSaves = NoSaves
    /\ timers = NoTimers

SpecLookup == InitLookup /\ [][lookupText]_vars

\* C22: a lookup of a key the table of the running code does not have returns
\* the key itself; a lookup of a key it has returns the table's entry for the
\* requested language, which is not empty
C22_LookupTotal ==
    localized # NoCall =>
        IF localized.key \in DOMAIN texts
        THEN /\ localized.text = texts[localized.key][localized.language]
             /\ localized.text # ""
        ELSE localized.text = localized.key

\* a key that only part_000 has was looked up while main.ts runs, and an
\* inherited property name was looked up
C22_Witness ==
    /\ localized.key \in {"newNote", "constructor"}
    /\ variant = "main"
    /\ localized.text = localized.key


(***************************************************************************)
(* The command "Toggle Sort by Modification Date".                         *)
(***************************************************************************)
ToggleSortPersisted ==
    /\ phase = "loaded"
    /\ settings' = [settings EXCEPT !.sortOrder = IF @ = "desc" THEN "asc" ELSE "desc"]
    /\ saveSettingsCall("plain")
    /\ UNCHANGED <<variant, phase, lastLanguage, hostVars, calVars, labels, listeners, timers>>

\* toggleSortByModified: the array getMarkdownFiles returns is sorted and
\* dropped; main.ts shows a Notice with its length, part_000 shows nothing
toggleSortByModified ==
    /\ phase = "loaded"
    /\ notice' = IF variant = "main" THEN "sortedNotes" ELSE notice
    /\ UNCHANGED <<pluginVars, hostVars, leaves, opening, currentDate, monthYearEl,
                   calendarEl, jump, modal, opened, explorerVars>>

NextCommand ==
    \/ toggleSortByModified
    \/ SortClick
    \/ ViewSwitcherClick
    \/ SaveDone
    \/ RefreshTimer

\* the command in use next to the calendar controls, over every small vault
SpecCommand == InitRender /\ [][NextCommand]_vars

\* C23: the toggle-sort command changes neither the settings nor the persisted
\* record, the cursor or the rendered calendar, and starts no save
C23_ToggleSortFrame ==
    [][toggleSortByModified =>
         UNCHANGED <<settings, saved, pendingSaves, currentDate, monthYearEl, calendarEl>>]_vars

\* the command ran on a vault with notes while the calendar showed them in
\* ascending order
C23_Witness ==
    /\ notice = "sortedNotes"
    /\ settings.sortOrder = "asc"
    /\ getMarkdownFiles(this) # <<>>


\* C24: while a calendar panel is open its header names the period of the
\* cursor: the cursor's month and year when the month view is shown, the
\* cursor's year when the year view is shown
C24_DisplayedPeriodIsCursor ==
    (leaves > 0 /\ monthYearEl # <<>>) =>
        monthYearEl = IF monthViewShown
                      THEN <<getMonth(currentDate), getFullYear(currentDate)>>
                      ELSE <<getFullYear(currentDate)>>


(***************************************************************************)
(* Unloading.  onunload cleans the file tree; the host detaches the vault  *)
(* event handlers, which were registered with registerEvent.  The          *)
(* MutationObserver, the interval and the pending timeouts were made with  *)
(* the browser's own functions and stay.                                   *)
(***************************************************************************)
\* cleanupFileDisplay: the date labels of the file titles and the count labels
\* of the folder titles are removed; every title that carries the listener
\* attribute loses it and is replaced by a clone, which has no handler.  The
\* observer sees the clones as added nav-file-title nodes
onunload ==
    /\ phase = "loaded"
    /\ canSchedule("observer")
    /\ phase' = "unloaded"
    /\ labels' = [p \in DOMAIN labels |->
                    SelectSeq(labels[p], LAMBDA sp :
                        sp.cls # (IF isFolder(this, p) THEN "file-count" ELSE "date-display"))]
    /\ listeners' = [p \in DOMAIN listeners |->
                       IF listeners[p].attr THEN NoListener ELSE listeners[p]]
    /\ timers' = IF \E p \in DOMAIN listeners : listeners[p].attr
                 THEN [timers EXCEPT !.observer = @ + 1] ELSE timers
    /\ UNCHANGED <<variant, settings, saved, lastLanguage, hostVars, calVars, pendingSaves>>

NextUnload ==
    \/ onunload
    \/ HostModify
    \/ SetLanguage
    \/ LangSaveDone
    \/ SetShowFileCount
    \/ SaveDone
    \/ RefreshTimer
    \/ ObserverTimer
    \/ Interval

\* the plugin is unloaded at some moment of its work on a folder tree
SpecUnload == InitFolders /\ [][NextUnload]_vars

\* C25: once the plugin is unloaded no title of the file tree carries a date
\* label, a count label, the listener attribute or a click handler
C25_UnloadedTreeIsClean ==
    phase = "unloaded" =>
        \A p \in DOMAIN labels : labels[p] = <<>> /\ listeners[p] = NoListener


\* C26: while every label of the file tree is what a refresh under the current
\* settings writes, the periodic consistency check of part_000 finds nothing
\* to update
C26_CheckUpdatesOnlyWhenNeeded ==
    (variant = "part" /\ phase = "loaded" /\ labels = refreshTitles(this, labels))
        => ~needsUpdate


(***************************************************************************)
(* The date-notes modal in use: the month view is open over notes of one   *)
(* day, a day cell is clicked, the sort button is pressed while renders    *)
(* wait for content, an entry is clicked.                                  *)
(***************************************************************************)
InitModal ==
    /\ variant \in Variants
    /\ phase = "loaded"
    /\ settings = [DEFAULT_SETTINGS EXCEPT !.calendarViewType = "month"]
    /\ saved = settings
    /\ lastLanguage = settings.language
    /\ now = MakeDate(2024, 2, 20, 0)
    /\ vault \in FlatVaults({MakeDate(2024, 2, 15, 0), MakeDate(2024, 2, 15, 1)})
    /\ names = NoNames
    /\ creating = <<>>
    /\ NoText
    /\ faulty = {}
    /\ CalendarOpen
    /\ labels = refreshTitles(this, NoLabels)
    /\ listeners = addClickHandlers(this, NoListeners)
    /\ pendingSaves = NoSaves
    /\ timers = NoTimers

NextModal ==
    \/ DayClick
    \/ ModalSortClick
    \/ ModalReadDone
    \/ ModalNoteClick
    \/ SaveDone
    \/ RefreshTimer

SpecModal == InitModal /\ [][NextModal]_vars

\* C27: when no render of the open modal is running any more, the modal shows
\* every note of its day exactly once, ordered by the current sort order
C27_OverlappingRendersSettle ==
    (modal.open /\ modal.renders = <<>>) =>
        /\ Len(modal.timeline) = Len(modal.notes)
        /\ \A n \in {modal.notes[i] : i \in DOMAIN modal.notes} :
              Cardinality({i \in DOMAIN modal.timeline : modal.timeline[i] = n}) = 1
        /\ \A i, j \in DOMAIN modal.timeline :
              i < j => IF settings.sortOrder = "desc"
                       THEN notes(this)[modal.timeline[i]] >= notes(this)[modal.timeline[j]]
                       ELSE notes(this)[modal.timeline[i]] <= notes(this)[modal.timeline[j]]

\* the sort button was pressed while an earlier render was waiting, and all
\* renders have ended since
C27_Witness ==
    /\ modal.open
    /\ modal.overlapped
    /\ modal.renders = <<>>
    /\ Len(modal.timeline) = MaxNotes
    /\ settings.sortOrder = "asc"
    /\ notes(this)[modal.timeline[1]] < notes(this)[modal.timeline[2]]


\* C28: every title node of the file tree has at most one calendar click
\* handler, and has one exactly when it carries the listener attribute
C28_AtMostOneHandler ==
    \A p \in DOMAIN listeners :
        /\ listeners[p].handlers <= 1
        /\ listeners[p].attr <=> listeners[p].handlers = 1

\* a note created after startup got its handler from the observer's pass, and
\* the startup pass and the pass of the observer have run over the older notes
C28_Witness ==
    /\ phase = "loaded"
    /\ Len(vault) = MaxNodes
    /\ timers.observer = 0
    /\ vault[MaxNodes].kind = "md"
    /\ listeners[MaxNodes].handlers = 1
    /\ \E p \in 1..(MaxNodes - 1) : listeners[p].handlers = 1


(***************************************************************************)
(* Opening the calendar: the command, the ribbon icon and a click on a     *)
(* note of the file tree all go through activateCalendarView.              *)
(***************************************************************************)
NextOpen ==
    \/ activateCalendarView
    \/ ViewStateSet
    \/ FileClick
    \/ JumpOpened
    \/ JumpFinish
    \/ PrevClick
    \/ NextClick
    \/ ViewSwitcherClick
    \/ SaveDone
    \/ RefreshTimer

SpecOpen == InitCalendar /\ [][NextOpen]_vars

\* C29: at most one calendar panel exists
C29_AtMostOnePanel == leaves <= 1


(***************************************************************************)
(* Folder titles without a data-path attribute.  getFolderPathFromTitle    *)
(* then reads the text of the title content, and addFileCountToFolder      *)
(* appends its label inside that same element.  A text is the sequence of  *)
(* its characters; the words of a label stand as one character each.       *)
(***************************************************************************)
\* countDisplay.textContent: "(N files, M notes)", or the Chinese form between
\* the full-width parentheses U+FF08 and U+FF09
textContent(span) ==
    IF span.fmt = "en"
    THEN <<"(">> \o String(span.files) \o <<" ", "files", ",", " ">>
           \o String(span.notes) \o <<" ", "notes", ")">>
    ELSE <<"U+FF08">> \o String(span.files) \o <<"U+6587U+4EF6">>
           \o String(span.notes) \o <<"U+7B14U+8BB0">> \o <<"U+FF09">>

\* textContent of .nav-folder-title-content of folder 1: its name and the labels in it
folderText == title \o Concat([i \in DOMAIN labels[1] |-> textContent(labels[1][i])])

\* String.trim
RECURSIVE trimEnd(_)
trimEnd(s) == IF s # <<>> /\ s[Len(s)] = " " THEN trimEnd(SubSeq(s, 1, Len(s) - 1)) ELSE s

trim(s) == trimEnd(dropWhile(s, {" "}))

\* /\s*\([^)]*\)\s*$/ matches s from position i to its end
countSuffixAt(s, i) ==
    LET open == Len(s) - Len(dropWhile(SubSeq(s, i, Len(s)), {" "})) + 1
    IN  /\ open <= Len(s)
        /\ s[open] = "("
        /\ occurrences(s, <<")">>, open + 1) # {}
        /\ trim(SubSeq(s, Min(occurrences(s, <<")">>, open + 1)) + 1, Len(s))) = <<>>

\* folderText.replace(/\s*\([^)]*\)\s*$/, ''): the leftmost match goes
removeCountSuffix(text) ==
    IF \E i \in 1..Len(text) : countSuffixAt(text, i)
    THEN SubSeq(text, 1, Min({i \in 1..Len(text) : countSuffixAt(text, i)}) - 1)
    ELSE text

\* getFolderPathFromTitle of a title without data-path, children, aria-label
\* and data-list-item: the cleaned title text, else the text the walk up the
\* tree collects
getFolderPathFromTitle(text) ==
    IF trim(removeCountSuffix(text)) # <<>> THEN trim(removeCountSuffix(text)) ELSE trim(text)

\* vault.getAbstractFileByPath of that string: folder 1 under its name, else nothing
pathOf(text) == IF text = title THEN 1 ELSE Len(vault) + 1

\* the pass of updateFileExplorerDates over the title of folder 1
refreshFolderTitle ==
    /\ phase = "loaded"
    /\ settings.showFileCount
    /\ labels' = [labels EXCEPT ![1] =
                     addFileCountToFolder(this, @, pathOf(getFolderPathFromTitle(folderText)))]
    /\ UNCHANGED <<pluginVars, hostVars, calVars, listeners, pendingSaves, timers>>

\* folder names: plain, ending in a parenthesis of their own, padded
FolderNames == {<<"a">>, <<"a", " ", "(", "b", ")">>, <<"a", "(", "b", ")", "c">>}

\* a folder holding one or two files, shown in either language
InitTitle ==
    /\ variant \in Variants
    /\ phase = "loaded"
    /\ settings \in {[DEFAULT_SETTINGS EXCEPT !.language = l] : l \in Languages}
    /\ saved = settings
    /\ lastLanguage = settings.language
    /\ now = MakeDate(2024, 2, 20, 0)
    /\ vault \in {<<Entry(0, "folder", now)>> \o fs :
                    fs \in UNION {[1..n -> {Entry(1, k, now) : k \in FileKinds}] : n \in 1..2}}
    /\ names = NoNames
    /\ creating = <<>>
    /\ firstLine = <<>>
    /\ preview = <<>>
    /\ localized = NoCall
    /\ title \in FolderNames
    /\ faulty = {}
    /\ CalendarClosed
    /\ labels = NoLabels
    /\ listeners = addClickHandlers(this, NoListeners)
    /\ pendingSaves = NoSaves
    /\ timers = NoTimers

SpecTitle == InitTitle /\ [][refreshFolderTitle]_vars

\* C30: the path read from the title of a folder without data-path is the same
\* with and without the count label the plugin has appended to it
C30_PathUnaffectedByCount ==
    getFolderPathFromTitle(folderText) = getFolderPathFromTitle(title)

====
